---- MODULE Spec2Model ----
(***************************************************************************)
(* Model lifecycle and retraining scheduler of the FinSync360 ML service.  *)
(*                                                                         *)
(*   models/base_model.py          BaseMLModel: train, predict, save, load *)
(*   models/payment_prediction.py  the two variants and their pipelines    *)
(*   services/training_service.py  TrainingService: guard, jobs, history   *)
(*   services/prediction_service.py PredictionService: lazy train, retrain *)
(*                                                                         *)
(* Three specifications share the variables:                               *)
(*   SpecMgr   managers and the artifact files, one public call per step   *)
(*   Spec      the asyncio tasks of the process, one event-loop step each  *)
(*   SpecHist  the bounded in-memory training history                      *)
(***************************************************************************)
EXTENDS Integers, Sequences, FiniteSets, TLC

VARIABLES
    mgr,                  \* manager id -> BaseMLModel fields
    files,                \* variant -> the two artifact files on disk
    now,                  \* wall clock, hours
    runs,                 \* number of train() executions started so far
    training_in_progress, \* TrainingService.training_in_progress (its keys)
    training_history,     \* TrainingService.training_history
    ml_models,            \* the "ml_models" collection (training-history store)
    task,                 \* task id -> position of that asyncio task
    called,               \* task id -> variant -> how its last _train_model call began
    audit_seen,           \* what the running/last performance audit read
    store_state,          \* variant -> last run of _save_training_metadata
    count,                \* calls returned so far, by kind
    budget,               \* operations that may still be started
    last                  \* SpecMgr: the last public call and the state before it

vars == <<mgr, files, now, runs, training_in_progress, training_history,
          ml_models, task, called, audit_seen, store_state, count, budget,
          last>>

---------------------------------------------------------------------------
(* Settings (config/settings.py). Scores are in hundredths.                *)

MODEL_RETRAIN_INTERVAL_HOURS == 24
MIN_TRAINING_DATA_SIZE == 100
MIN_MODEL_ACCURACY == 75
MIN_MODEL_PRECISION == 70
MIN_MODEL_RECALL == 70
MIN_R2_SCORE == 50
HISTORY_CAP == 50

(* Bounds of the model.                                                    *)
MaxRuns == 3        \* train() executions per behaviour
MaxOps == 2         \* operations started per behaviour (Spec)
MaxMgrOps == 3      \* public calls per behaviour (SpecMgr)
TickHours == 24     \* hours the clock advances in one Tick
MaxTicks == 1       \* Ticks per behaviour
MaxSessions == 52   \* train_all_models calls per behaviour (SpecHist)
MaxSvcOps == 2      \* PredictionService calls per behaviour (SpecSvc)
MaxBulk == 2        \* customer ids in one bulk request
MaxForecastOps == 1 \* forecast requests per behaviour (SpecForecast)
MaxItems == 2       \* item ids in one forecast request

Variants == {"payment_delay", "payment_amount"}

Category(v) == IF v = "payment_delay" THEN "classification" ELSE "regression"

FeatureColumns(v) ==
    IF v = "payment_delay"
    THEN <<"payment_amount", "credit_limit", "outstanding_amount",
           "credit_utilization", "due_day_of_week", "due_day_of_month",
           "due_month", "due_quarter", "days_until_due",
           "customer_category_encoded", "payment_method_encoded",
           "avg_delay_days", "payment_frequency", "total_payments">>
    ELSE <<"invoice_amount", "credit_limit", "outstanding_amount",
           "payment_day_of_week", "payment_month", "payment_ratio">>

Get(d, k, default) == IF k \in DOMAIN d THEN d[k] ELSE default

(* The metric sets a run can produce (each threshold met and missed).      *)
MetricChoices(v) ==
    IF Category(v) = "classification"
    THEN { [accuracy |-> 75, precision |-> 70, recall |-> 70],
           [accuracy |-> 74, precision |-> 70, recall |-> 70],
           [accuracy |-> 75, precision |-> 69, recall |-> 70],
           [accuracy |-> 75, precision |-> 70, recall |-> 69] }
    ELSE { [r2_score |-> 50], [r2_score |-> 49] }

RowChoices == {MIN_TRAINING_DATA_SIZE - 1, MIN_TRAINING_DATA_SIZE}

---------------------------------------------------------------------------
(* BaseMLModel                                                             *)

\* An estimator object: the run that created the instance and the run whose
\* data it was last fitted on (0: never fitted). NoEstimator is None.
NoEstimator == [inst |-> 0, fit |-> 0]
CorruptFile == [inst |-> -1, fit |-> -1]

\* model_metadata; run = 0 is the empty dict. `run` stands for the
\* sub-hour part of the trained_at timestamp: it identifies the run.
NoMetadata ==
    [run |-> 0, trained_at |-> 0, training_data_size |-> 0,
     feature_count |-> 0, metrics |-> <<>>, feature_columns |-> <<>>]

\* label_encoders: the classes of the customerCategory encoder, in the
\* order of their codes (<<>>: no encoder fitted yet). paymentMethod is
\* encoded by the same code and follows the same course.
\* scaler: the batch the StandardScaler's statistics were last computed
\* from (<<>>: never fitted).
NewManager(v) ==
    [variant |-> v, model |-> NoEstimator, is_trained |-> FALSE,
     feature_columns |-> <<>>, model_metadata |-> NoMetadata,
     label_encoders |-> <<>>, scaler |-> <<>>]

\* The customerCategory values of the training data and of a request's row.
TrainCats == <<"A", "B">>
PredictCats == {"A", "B", "C"}

Classes(enc) == {enc[i] : i \in 1..Len(enc)}
Code(enc, c) == (CHOOSE i \in 1..Len(enc) : enc[i] = c) - 1

\* prepare_features on a batch whose sorted distinct categories are `cats`:
\* the delay predictor fits the encoder when it has none and transforms
\* with the one it has otherwise (an unseen label raises); the amount
\* predictor encodes nothing. codes: the encoded value of each category.
\* The delay predictor then calls scaler.fit_transform on the batch
\* (line 205), whatever the caller: the statistics become the batch's.
prepare_features(m, cats) ==
    LET m1 == [m EXCEPT !.feature_columns = FeatureColumns(m.variant),
                        !.scaler = IF m.variant = "payment_delay"
                                   THEN cats ELSE @]
    IN  IF m.variant # "payment_delay"
        THEN [mgr |-> m1, ok |-> TRUE, codes |-> [i \in 1..Len(cats) |-> 0]]
        ELSE IF m.label_encoders = <<>>
        THEN [mgr |-> [m1 EXCEPT !.label_encoders = cats], ok |-> TRUE,
              codes |-> [i \in 1..Len(cats) |-> i - 1]]
        ELSE IF \E i \in 1..Len(cats) : cats[i] \notin Classes(m.label_encoders)
        THEN [mgr |-> m, ok |-> FALSE, codes |-> <<>>]
        ELSE [mgr |-> m1, ok |-> TRUE,
              codes |-> [i \in 1..Len(cats) |->
                            Code(m.label_encoders, cats[i])]]

NoFiles == [model |-> NoEstimator, meta |-> NoMetadata]

\* The steps of train() that can raise, in program order.
TrainSteps ==
    <<"load", "size", "prepare_early", "prepare_late", "split", "fit",
      "score", "cv", "check", "save_dump", "save_meta", "none">>

StepNames == {TrainSteps[i] : i \in 1..Len(TrainSteps)}

StepIndex == [s \in StepNames |-> CHOOSE i \in 1..Len(TrainSteps) : TrainSteps[i] = s]

\* Step `s` ran to its end in a run that raised at `fail` ("none": no raise).
Passed(fail, s) == StepIndex[s] < StepIndex[fail]

FailChoices == StepNames \ {"size", "check"}

\* The inputs of one run: the rows loaded, the retrain flag, the step that
\* raises and the scores the evaluation gives. Rows and scores are drawn
\* only where the run gets to read them.
DefaultMetrics(v) ==
    IF Category(v) = "classification"
    THEN [accuracy |-> 75, precision |-> 70, recall |-> 70]
    ELSE [r2_score |-> 50]

TrainInputsOf(v) ==
    LET m0 == DefaultMetrics(v)
    IN  { inp \in [rows : RowChoices, retrain : BOOLEAN, fail : FailChoices,
                   metrics : MetricChoices(v)] :
            /\ inp.fail = "load" => inp.rows = MIN_TRAINING_DATA_SIZE
            /\ inp.rows < MIN_TRAINING_DATA_SIZE => inp.fail = "none"
            /\ (inp.rows < MIN_TRAINING_DATA_SIZE \/ ~Passed(inp.fail, "score"))
                   => inp.metrics = m0 }

AllTrainInputs == [v \in Variants |-> TrainInputsOf(v)]

TrainInputs(v) == AllTrainInputs[v]

\* Variant: no size check.
FailedAt_NoSizeCheck(inp) == inp.fail

\* Where the run raises: the size check is decided by the data.
FailedAt(inp) ==
    IF inp.fail = "load" THEN "load"
    ELSE IF inp.rows < MIN_TRAINING_DATA_SIZE THEN "size"
    ELSE inp.fail

Metadata(m, run, t, inp) ==
    [run |-> run, trained_at |-> t, training_data_size |-> inp.rows,
     feature_count |-> Len(FeatureColumns(m.variant)),
     metrics |-> inp.metrics,
     feature_columns |-> FeatureColumns(m.variant)]

\* _meets_performance_requirements
meets_performance_requirements(metrics, category) ==
    IF category = "classification"
    THEN /\ Get(metrics, "accuracy", 0) >= MIN_MODEL_ACCURACY
         /\ Get(metrics, "precision", 0) >= MIN_MODEL_PRECISION
         /\ Get(metrics, "recall", 0) >= MIN_MODEL_RECALL
    ELSE Get(metrics, "r2_score", 0) >= MIN_R2_SCORE

\* Variant: a run below the thresholds raises.
RaisesAtCheck_Fatal(metrics, category) ==
    ~meets_performance_requirements(metrics, category)

\* train, lines 125-127: a run below the thresholds logs a warning; nothing
\* is raised.
RaisesAtCheck(metrics, category) == FALSE

\* Variant: the metadata file is written only when there is none yet.
save_model_KeepMetadata(m, f, fail) ==
    IF ~m.is_trained THEN [files |-> f, ok |-> FALSE]
    ELSE IF fail = "save_dump" THEN [files |-> f, ok |-> FALSE]
    ELSE IF fail = "save_meta"
    THEN [files |-> [f EXCEPT !.model = m.model], ok |-> FALSE]
    ELSE [files |-> [model |-> m.model,
                     meta |-> IF f.meta = NoMetadata
                              THEN m.model_metadata ELSE f.meta],
          ok |-> TRUE]

\* save_model: both files, the estimator first. `fail` is the write that raises.
save_model(m, f, fail) ==
    IF ~m.is_trained THEN [files |-> f, ok |-> FALSE]
    ELSE IF fail = "save_dump" THEN [files |-> f, ok |-> FALSE]
    ELSE IF fail = "save_meta"
    THEN [files |-> [f EXCEPT !.model = m.model], ok |-> FALSE]
    ELSE [files |-> [model |-> m.model, meta |-> m.model_metadata], ok |-> TRUE]

\* _is_classification: hasattr(self.model, 'predict_proba') if self.model
\* else False. A manager that holds no estimator is not a classifier,
\* whatever its variant.
is_classification(m) ==
    IF m.model # NoEstimator
    THEN Category(m.variant) = "classification" ELSE FALSE

\* The stratify argument of train_test_split (line 87), evaluated on the
\* estimator the manager holds when the split is made.
split_kind(m) == IF is_classification(m) THEN "stratified" ELSE "plain"

\* Variant: the flag is read the other way round.
creates_model_UnlessRetrain(m, retrain) == m.model = NoEstimator \/ ~retrain

\* Line 91: a new estimator instance is created when the manager holds none
\* or when retrain is set; otherwise the held instance is fitted again.
creates_model(m, retrain) == m.model = NoEstimator \/ retrain

\* train(): the manager and the files after the run, and what it returned.
\* m: manager, f: its variant's files, run: this run, t: the clock.
train(m, f, run, t, inp) ==
    LET fail0 == FailedAt(inp)
        prep == prepare_features(m, TrainCats)
        fail == IF Passed(fail0, "prepare_early") /\ ~prep.ok
                THEN "prepare_early"
                ELSE IF Passed(fail0, "cv")
                        /\ RaisesAtCheck(inp.metrics, Category(m.variant))
                THEN "check"
                ELSE fail0
        cols == IF Passed(fail, "prepare_early")
                THEN prep.mgr.feature_columns ELSE m.feature_columns
        encs == IF Passed(fail, "prepare_early")
                THEN prep.mgr.label_encoders ELSE m.label_encoders
        scal == IF Passed(fail, "prepare_late")
                THEN prep.mgr.scaler ELSE m.scaler
        created == IF Passed(fail, "split") /\ creates_model(m, inp.retrain)
                   THEN [inst |-> run, fit |-> 0] ELSE m.model
        fitted == IF Passed(fail, "fit")
                  THEN [created EXCEPT !.fit = run] ELSE created
        evaluated == Passed(fail, "cv")
        checked == Passed(fail, "check")
        m1 == [m EXCEPT
                 !.feature_columns = cols,
                 !.label_encoders = encs,
                 !.scaler = scal,
                 !.model = fitted,
                 !.model_metadata =
                     IF evaluated THEN Metadata(m, run, t, inp) ELSE @,
                 !.is_trained = IF checked THEN TRUE ELSE @]
        saved == IF checked THEN save_model(m1, f, fail)
                 ELSE [files |-> f, ok |-> FALSE]
    IN  [mgr |-> m1, files |-> saved.files, ok |-> saved.ok,
         failed_at |-> fail,
         split |-> IF Passed(fail, "split") THEN split_kind(m) ELSE "none",
         result |-> IF saved.ok THEN m1.model_metadata ELSE NoMetadata]

\* Variant: the estimator file alone counts as an artifact.
FilesExist_ModelOnly(f) == f.model # NoEstimator

FilesExist(f) == f.model # NoEstimator /\ f.meta # NoMetadata

LoadFailChoices == {"none", "joblib_load", "json_load"}

\* load_model: returns found/not found; a read that raises is caught by the
\* except clause, which returns False (raised: the call itself raised).
load_model(m, f, fail) ==
    IF ~FilesExist(f) THEN [mgr |-> m, ok |-> FALSE, raised |-> FALSE]
    ELSE IF fail = "joblib_load" \/ f.model = CorruptFile
    THEN [mgr |-> m, ok |-> FALSE, raised |-> FALSE]
    ELSE IF fail = "json_load"
    THEN [mgr |-> [m EXCEPT !.model = f.model], ok |-> FALSE,
          raised |-> FALSE]
    ELSE [mgr |-> [m EXCEPT !.model = f.model,
                            !.model_metadata = f.meta,
                            !.feature_columns = f.meta.feature_columns,
                            !.is_trained = TRUE],
          ok |-> TRUE, raised |-> FALSE]

\* What predict returns: the run whose fit produced the estimator that
\* answered and the encoded category it was given (fit = 0: the call raised).
NoAnswer == [fit |-> 0, x |-> 0]

\* The lazy load of predict and predict_proba, lines 144-148 and 158-162.
lazy_load(m, f, fail) ==
    IF m.is_trained THEN m ELSE load_model(m, f, fail).mgr

\* Lines 150-154 and 167-171: the pipeline on the request's row (category
\* c), then the estimator.
answer_of(m, c) ==
    LET prep == prepare_features(m, <<c>>)
    IN  IF ~prep.ok
        THEN [mgr |-> m, ok |-> FALSE, error |-> "UnseenLabel",
              answer |-> NoAnswer]
        ELSE IF prep.mgr.model.fit <= 0
        THEN [mgr |-> prep.mgr, ok |-> FALSE, error |-> "NotFitted",
              answer |-> NoAnswer]
        ELSE [mgr |-> prep.mgr, ok |-> TRUE, error |-> "none",
              answer |-> [fit |-> prep.mgr.model.fit, x |-> prep.codes[1]]]

\* predict(): lazy load, then the pipeline, then the estimator.
predict(m, f, fail, c) ==
    LET m1 == lazy_load(m, f, fail)
    IN  IF ~m1.is_trained
        THEN [mgr |-> m1, ok |-> FALSE, error |-> "NotTrained",
              answer |-> NoAnswer]
        ELSE answer_of(m1, c)

\* Variant: every estimator is taken to have predict_proba.
HasPredictProba_Always(m) == TRUE

\* hasattr(self.model, 'predict_proba'): the classifier has it, the
\* regressor does not.
HasPredictProba(m) == Category(m.variant) = "classification"

\* predict_proba()
predict_proba(m, f, fail, c) ==
    LET m1 == lazy_load(m, f, fail)
    IN  IF ~m1.is_trained
        THEN [mgr |-> m1, ok |-> FALSE, error |-> "NotTrained",
              answer |-> NoAnswer]
        ELSE IF ~HasPredictProba(m1)
        THEN [mgr |-> m1, ok |-> FALSE, error |-> "UnsupportedOperation",
              answer |-> NoAnswer]
        ELSE answer_of(m1, c)

---------------------------------------------------------------------------
(* Managers of the process. main.py builds one TrainingService and the     *)
(* routes build a PredictionService each; every service owns a manager per *)
(* variant. All managers of a variant share that variant's files.          *)

MgrIds == {"ts_delay", "ts_amount", "ps_delay", "ps_amount"}

VariantOf(id) ==
    IF id \in {"ts_delay", "ps_delay"} THEN "payment_delay" ELSE "payment_amount"

TsMgr(v) == IF v = "payment_delay" THEN "ts_delay" ELSE "ts_amount"
PsMgr(v) == IF v = "payment_delay" THEN "ps_delay" ELSE "ps_amount"

\* The last public call on a manager: what it was given, how it ended, the
\* manager and files before it, and the call that came before it.
NoPrev == [op |-> "none", id |-> "ts_delay", ok |-> TRUE, failed_at |-> "none"]

NoLast ==
    [op |-> "none", id |-> "ts_delay", ok |-> TRUE, failed_at |-> "none",
     raised |-> FALSE, rows |-> 0, cat |-> "A", io |-> "none",
     answer |-> NoAnswer, retrain |-> FALSE, split |-> "none",
     before |-> NewManager("payment_delay"), files_before |-> NoFiles,
     prev |-> NoPrev]

Prev == [op |-> last.op, id |-> last.id, ok |-> last.ok,
         failed_at |-> last.failed_at]

\* SpecMgr follows the managers of one variant per behaviour.
Scope == VariantOf(last.id)

Outcome(status, reason) == [status |-> status, reason |-> reason]
NoOutcome == Outcome("none", "")
NoResults == [v \in Variants |-> NoOutcome]

\* How a _train_model call began: whether the variant was in flight, and
\* whether an artifact of the variant (in the TrainingService's manager or on
\* disk) was younger than the retrain interval.
NotCalled == [at |-> "none", recent |-> FALSE]

FreshCalls == [v \in Variants |-> NotCalled]

IdleTask ==
    [op |-> "idle", pc |-> "idle", v |-> "payment_delay", force |-> FALSE,
     todo |-> <<>>, results |-> NoResults, run |-> 0]

TaskIds == {"periodic", "audit", "manual", "request"}

NoStore == [run |-> 0, clean |-> TRUE]

InitCommon ==
    /\ mgr = [id \in MgrIds |-> NewManager(VariantOf(id))]
    /\ files = [v \in Variants |-> NoFiles]
    /\ now = 0
    /\ runs = 0
    /\ training_in_progress = {}
    /\ training_history = <<>>
    /\ ml_models = <<>>
    /\ task = [t \in TaskIds |-> IdleTask]
    /\ called = [t \in TaskIds |-> FreshCalls]
    /\ audit_seen = [n |-> 0,
                     of |-> [v \in Variants |->
                               [trained |-> FALSE, metrics |-> <<>>]]]
    /\ store_state = [v \in Variants |-> NoStore]
    /\ count = [attempts |-> 0, all_calls |-> 0, train_ok |-> 0,
                insert_failed |-> 0]

---------------------------------------------------------------------------
(* SpecMgr: any sequence of public calls on the managers.                  *)

schedVars == <<now, training_in_progress, training_history, ml_models, task,
               called, audit_seen, store_state, count>>

InitMgr ==
    /\ InitCommon
    /\ budget = MaxMgrOps
    /\ \E v \in Variants :
          last = [NoLast EXCEPT !.id = TsMgr(v), !.before = NewManager(v)]

MTrain(id, inp) ==
    LET v == VariantOf(id)
        r == train(mgr[id], files[v], runs + 1, now, inp)
    IN  /\ budget > 0 /\ runs < MaxRuns /\ v = Scope
        /\ runs' = runs + 1
        /\ mgr' = [mgr EXCEPT ![id] = r.mgr]
        /\ files' = [files EXCEPT ![v] = r.files]
        /\ last' = [op |-> "train", id |-> id, ok |-> r.ok,
                    failed_at |-> r.failed_at, raised |-> ~r.ok,
                    rows |-> inp.rows, cat |-> "A", io |-> "none",
                    answer |-> NoAnswer, retrain |-> inp.retrain,
                    split |-> r.split,
                    before |-> mgr[id], files_before |-> files[v],
                    prev |-> Prev]
        /\ budget' = budget - 1
        /\ UNCHANGED schedVars

MSave(id, fail) ==
    LET v == VariantOf(id)
        r == save_model(mgr[id], files[v], fail)
    IN  /\ budget > 0 /\ v = Scope
        /\ files' = [files EXCEPT ![v] = r.files]
        /\ last' = [op |-> "save", id |-> id, ok |-> r.ok,
                    failed_at |-> IF r.ok THEN "none" ELSE fail,
                    raised |-> ~r.ok, rows |-> 0, cat |-> "A", io |-> fail,
                    answer |-> NoAnswer, retrain |-> FALSE,
                    split |-> "none",
                    before |-> mgr[id], files_before |-> files[v],
                    prev |-> Prev]
        /\ budget' = budget - 1
        /\ UNCHANGED <<mgr, runs>>
        /\ UNCHANGED schedVars

MLoad(id, fail) ==
    LET v == VariantOf(id)
        r == load_model(mgr[id], files[v], fail)
    IN  /\ budget > 0 /\ v = Scope
        /\ fail = "none" \/ FilesExist(files[v])
        /\ mgr' = [mgr EXCEPT ![id] = r.mgr]
        /\ last' = [op |-> "load", id |-> id, ok |-> r.ok,
                    failed_at |-> IF r.ok THEN "none" ELSE fail,
                    raised |-> r.raised, rows |-> 0, cat |-> "A",
                    io |-> fail, answer |-> NoAnswer, retrain |-> FALSE,
                    split |-> "none",
                    before |-> mgr[id], files_before |-> files[v],
                    prev |-> Prev]
        /\ budget' = budget - 1
        /\ UNCHANGED <<files, runs>>
        /\ UNCHANGED schedVars

MPredict(id, fail, c) ==
    LET v == VariantOf(id)
        r == predict(mgr[id], files[v], fail, c)
    IN  /\ budget > 0 /\ v = Scope
        /\ fail = "none" \/ (~mgr[id].is_trained /\ FilesExist(files[v]))
        /\ mgr' = [mgr EXCEPT ![id] = r.mgr]
        /\ last' = [op |-> "predict", id |-> id, ok |-> r.ok,
                    failed_at |-> r.error, raised |-> ~r.ok, rows |-> 0,
                    cat |-> c, io |-> fail, answer |-> r.answer,
                    retrain |-> FALSE, split |-> "none",
                    before |-> mgr[id], files_before |-> files[v],
                    prev |-> Prev]
        /\ budget' = budget - 1
        /\ UNCHANGED <<files, runs>>
        /\ UNCHANGED schedVars

MPredictProba(id, fail, c) ==
    LET v == VariantOf(id)
        r == predict_proba(mgr[id], files[v], fail, c)
    IN  /\ budget > 0 /\ v = Scope
        /\ fail = "none" \/ (~mgr[id].is_trained /\ FilesExist(files[v]))
        /\ mgr' = [mgr EXCEPT ![id] = r.mgr]
        /\ last' = [op |-> "predict_proba", id |-> id, ok |-> r.ok,
                    failed_at |-> r.error, raised |-> ~r.ok, rows |-> 0,
                    cat |-> c, io |-> fail, answer |-> r.answer,
                    retrain |-> FALSE, split |-> "none",
                    before |-> mgr[id], files_before |-> files[v],
                    prev |-> Prev]
        /\ budget' = budget - 1
        /\ UNCHANGED <<files, runs>>
        /\ UNCHANGED schedVars

\* The runs of SpecMgr: every step that can raise, and scores that meet
\* every threshold or miss the last one.
AllMgrTrainInputs ==
    [v \in Variants |->
        {inp \in TrainInputs(v) :
            Category(v) = "classification" =>
                /\ inp.metrics.accuracy = MIN_MODEL_ACCURACY
                /\ inp.metrics.precision = MIN_MODEL_PRECISION}]

MgrTrainInputs(v) == AllMgrTrainInputs[v]

NextMgr ==
    \/ \E id \in MgrIds : \E inp \in MgrTrainInputs(VariantOf(id)) :
           MTrain(id, inp)
    \/ \E id \in MgrIds : \E fail \in {"none", "save_dump", "save_meta"} :
           MSave(id, fail)
    \/ \E id \in MgrIds : \E fail \in LoadFailChoices : MLoad(id, fail)
    \/ \E id \in MgrIds : \E fail \in LoadFailChoices : \E c \in PredictCats :
           MPredict(id, fail, c)
    \/ \E id \in MgrIds : \E fail \in LoadFailChoices : \E c \in PredictCats :
           MPredictProba(id, fail, c)

SpecMgr == InitMgr /\ [][NextMgr]_vars

---------------------------------------------------------------------------
(* Claims on the manager (SpecMgr).                                        *)

\* C3: a train() that fails in save_model leaves is_trained as it was before
\* the run (is_trained becomes true only after both files are written).
C3_TrainedOnlyAfterSave ==
    (last.op = "train" /\ last.failed_at \in {"save_dump", "save_meta"})
        => mgr[last.id].is_trained = last.before.is_trained

\* C4: a failed train() on a manager that held a trained artifact leaves the
\* estimator, metadata, feature columns and is_trained of that artifact.
C4_FailedTrainKeepsArtifact ==
    (last.op = "train" /\ ~last.ok /\ last.before.is_trained)
        => mgr[last.id] = last.before

\* C5: a manager is untrained, or trained with an estimator, metadata and
\* feature columns that all come from the same training run.
C5_OneCoherentArtifact ==
    \A id \in MgrIds :
        mgr[id].is_trained =>
            /\ mgr[id].model.fit > 0
            /\ mgr[id].model_metadata.run = mgr[id].model.fit
            /\ mgr[id].feature_columns = mgr[id].model_metadata.feature_columns

---------------------------------------------------------------------------
(* TrainingService                                                         *)

Recent(md, t) ==
    md.run # 0 /\ t - md.trained_at < MODEL_RETRAIN_INTERVAL_HOURS

ArtifactRecent(M, F, v, t) ==
    \/ M[TsMgr(v)].is_trained /\ Recent(M[TsMgr(v)].model_metadata, t)
    \/ FilesExist(F[v]) /\ Recent(F[v].meta, t)

\* Variant: the first 50 sessions are kept.
AppendSession_KeepOldest(history, session) ==
    LET h == Append(history, session)
    IN  IF Len(h) > HISTORY_CAP THEN SubSeq(h, 1, HISTORY_CAP) ELSE h

\* train_all_models, lines 91-101: record the session, keep the last 50.
AppendSession(history, session) ==
    LET h == Append(history, session)
    IN  IF Len(h) > HISTORY_CAP
        THEN SubSeq(h, Len(h) - HISTORY_CAP + 1, Len(h))
        ELSE h

Session(t, results, force) ==
    [timestamp |-> t, results |-> results,
     type |-> IF force THEN "manual" ELSE "scheduled"]

\* Variant: recall is not compared.
meets_performance_threshold_NoRecall(metrics, category) ==
    IF category = "classification"
    THEN /\ Get(metrics, "accuracy", 0) >= MIN_MODEL_ACCURACY
         /\ Get(metrics, "precision", 0) >= MIN_MODEL_PRECISION
    ELSE IF category = "regression"
    THEN Get(metrics, "r2_score", 0) >= MIN_R2_SCORE
    ELSE FALSE

\* _meets_performance_threshold
meets_performance_threshold(metrics, category) ==
    IF category = "classification"
    THEN /\ Get(metrics, "accuracy", 0) >= MIN_MODEL_ACCURACY
         /\ Get(metrics, "precision", 0) >= MIN_MODEL_PRECISION
         /\ Get(metrics, "recall", 0) >= MIN_MODEL_RECALL
    ELSE IF category = "regression"
    THEN Get(metrics, "r2_score", 0) >= MIN_R2_SCORE
    ELSE FALSE

\* _check_model_performance, lines 215-227: the variants to retrain, in order.
models_to_retrain(M) ==
    LET pick(v) ==
            IF M[TsMgr(v)].is_trained
               /\ ~meets_performance_threshold(
                      M[TsMgr(v)].model_metadata.metrics, Category(v))
            THEN <<v>> ELSE <<>>
    IN  pick("payment_delay") \o pick("payment_amount")

\* Variant: the filter has no model_type.
update_many_AnyType(rows, model_type, version) ==
    [i \in DOMAIN rows |->
        IF rows[i].version # version /\ rows[i].status = "active"
        THEN [rows[i] EXCEPT !.status = "inactive"]
        ELSE rows[i]]

\* _save_training_metadata, lines 272-281 and 287-294.
Row(model_type, version) ==
    [model_type |-> model_type, version |-> version, status |-> "active"]

update_many(rows, model_type, version) ==
    [i \in DOMAIN rows |->
        IF /\ rows[i].model_type = model_type
           /\ rows[i].version # version
           /\ rows[i].status = "active"
        THEN [rows[i] EXCEPT !.status = "inactive"]
        ELSE rows[i]]

\* The part of the state one event-loop step of a TrainingService task
\* threads through its calls: ts = [inprog, hist, tk, cl, n], n the counts.
\* M, F, T: managers, files and clock as the step reads them.

\* Variant: every caller records a session.
Finish_AnyCaller(ts, T) ==
    [ts EXCEPT
       !.hist = AppendSession(@, Session(T, ts.tk.results, ts.tk.force)),
       !.n.all_calls = IF ts.tk.op = "train_all" THEN @ + 1 ELSE @,
       !.tk.op = "idle",
       !.tk.pc = "idle"]

\* The caller's code after its last _train_model returned.
Finish(ts, T) ==
    [ts EXCEPT
       !.hist = IF ts.tk.op = "train_all"
                THEN AppendSession(@, Session(T, ts.tk.results, ts.tk.force))
                ELSE @,
       !.n.all_calls = IF ts.tk.op = "train_all" THEN @ + 1 ELSE @,
       !.tk.op = "idle",
       !.tk.pc = "idle"]

\* _train_model, lines 134-154, for the next variant of the caller; a call
\* that returns at once goes on with the caller in the same step.
RECURSIVE train_model(_, _, _, _)

\* Variant: a failed attempt ends the caller's loop.
Return_AbortOnFailure(ts, M, F, T, outcome) ==
    LET ts1 == [ts EXCEPT !.tk.results[ts.tk.v] = outcome, !.tk.pc = "idle",
                          !.tk.run = 0, !.n.attempts = @ + 1]
    IN  IF ts1.tk.todo = <<>> \/ outcome.status = "failed"
        THEN Finish(ts1, T)
        ELSE train_model(ts1, M, F, T)

Return(ts, M, F, T, outcome) ==
    LET ts1 == [ts EXCEPT !.tk.results[ts.tk.v] = outcome, !.tk.pc = "idle",
                          !.tk.run = 0, !.n.attempts = @ + 1]
    IN  IF ts1.tk.todo = <<>> THEN Finish(ts1, T)
        ELSE train_model(ts1, M, F, T)

\* Variant: no check of training_in_progress.
Guarded_NoCheck(inprog, v) == FALSE

Guarded(inprog, v) == v \in inprog

\* Variant: the skipped call pops the entry on its way out.
skipped_in_flight_Pop(inprog, v) == inprog \ {v}

\* Lines 134-138: the return of a call that found the variant in flight is
\* outside the try statement; no finally clause runs.
skipped_in_flight(inprog, v) == inprog

train_model(ts, M, F, T) ==
    LET v == Head(ts.tk.todo)
        m == M[TsMgr(v)]
        ts1 == [ts EXCEPT
                  !.tk.todo = Tail(@),
                  !.tk.v = v,
                  !.cl[v] = [at |-> IF v \in ts.inprog THEN "busy" ELSE "free",
                             recent |-> ArtifactRecent(M, F, v, T)]]
    IN  IF Guarded(ts.inprog, v)
        THEN Return([ts1 EXCEPT !.inprog = skipped_in_flight(@, v)], M, F, T,
                    Outcome("skipped", "Training already in progress"))
        ELSE IF ~ts.tk.force /\ m.is_trained /\ Recent(m.model_metadata, T)
        THEN Return(ts1, M, F, T, Outcome("skipped", "Model is recent enough"))
        ELSE [ts1 EXCEPT !.inprog = @ \cup {v}, !.tk.pc = "data_check"]

\* Variant: no finally clause.
Leave_KeepEntry(ts, M, F, T, outcome) == Return(ts, M, F, T, outcome)

\* The finally clause of _train_model, line 190, then the return.
Leave(ts, M, F, T, outcome) ==
    Return([ts EXCEPT !.inprog = @ \ {ts.tk.v}], M, F, T, outcome)

\* Variant: no except clause; the exception of train() leaves _train_model
\* and its callers, and the job that made the call ends raised.
train_raised_Propagate(ts, M, F, T, reason) ==
    [ts EXCEPT !.inprog = @ \ {ts.tk.v}, !.tk.pc = "raised", !.tk.run = 0]

\* _train_model, lines 183-190: whatever train() raises is caught and
\* turned into the result 'failed'; then the finally clause.
train_raised(ts, M, F, T, reason) ==
    Leave(ts, M, F, T, Outcome("failed", reason))

Thread(t) ==
    [inprog |-> training_in_progress, hist |-> training_history,
     tk |-> task[t], cl |-> called[t], n |-> count]

Commit(t, ts) ==
    /\ training_in_progress' = ts.inprog
    /\ training_history' = ts.hist
    /\ task' = [task EXCEPT ![t] = ts.tk]
    /\ called' = [called EXCEPT ![t] = ts.cl]
    /\ count' = ts.n

CanStart(t) == task[t].op = "idle" /\ budget > 0 /\ runs < MaxRuns

Begin(op, force, todo) ==
    [op |-> op, pc |-> "idle", v |-> "payment_delay", force |-> force,
     todo |-> todo, results |-> NoResults, run |-> 0]

\* The runs the scheduler's tasks meet: a run that raises before it changes
\* the manager, one that raises while saving, and one that succeeds.
SchedFailChoices == {"load", "save_meta", "none"}

AllSchedTrainInputs ==
    [v \in Variants |->
        {inp \in TrainInputs(v) :
            /\ inp.fail \in SchedFailChoices
            /\ inp.rows = MIN_TRAINING_DATA_SIZE
            /\ Category(v) = "classification" =>
                   inp.metrics.accuracy = MIN_MODEL_ACCURACY
                   /\ inp.metrics.precision = MIN_MODEL_PRECISION}]

SchedTrainInputs(v) == AllSchedTrainInputs[v]

\* A request's run: nothing in the process reads the scores it records.
AllRequestTrainInputs ==
    [v \in Variants |->
        {inp \in SchedTrainInputs(v) : inp.metrics = DefaultMetrics(v)}]

RequestTrainInputs(v) == AllRequestTrainInputs[v]

---------------------------------------------------------------------------
(* Spec: the tasks of the process on the event loop.                       *)

InitSched == InitCommon /\ budget = MaxOps /\ last = NoLast

Tick ==
    /\ now < MaxTicks * TickHours
    /\ now' = now + TickHours
    /\ UNCHANGED <<mgr, files, runs, training_in_progress, training_history,
                   ml_models, task, called, audit_seen, store_state, count,
                   budget, last>>

\* train_all_models: the periodic job (_scheduled_training) or a direct call.
StartTrainAll(t, force) ==
    /\ CanStart(t)
    /\ Commit(t, train_model(
           [Thread(t) EXCEPT
              !.tk = Begin("train_all", force,
                           <<"payment_delay", "payment_amount">>),
              !.cl = FreshCalls],
           mgr, files, now))
    /\ budget' = budget - 1
    /\ UNCHANGED <<mgr, files, now, runs, ml_models, audit_seen, store_state,
                   last>>

\* train_specific_model
StartTrainSpecific(t, v, force) ==
    /\ CanStart(t)
    /\ Commit(t, train_model(
           [Thread(t) EXCEPT !.tk = Begin("train_specific", force, <<v>>),
                             !.cl = FreshCalls],
           mgr, files, now))
    /\ budget' = budget - 1
    /\ UNCHANGED <<mgr, files, now, runs, ml_models, audit_seen, store_state,
                   last>>

\* _check_model_performance: the check, then train_specific_model(force) of
\* each variant to retrain, one after the other.
StartAudit(t) ==
    LET todo == models_to_retrain(mgr)
        ts0 == [Thread(t) EXCEPT !.tk = Begin("audit", TRUE, todo),
                                 !.cl = FreshCalls]
    IN  /\ CanStart(t)
        /\ audit_seen' =
               [n |-> audit_seen.n + 1,
                of |-> [v \in Variants |->
                          [trained |-> mgr[TsMgr(v)].is_trained,
                           metrics |-> mgr[TsMgr(v)].model_metadata.metrics]]]
        /\ Commit(t, IF todo = <<>> THEN Finish(ts0, now)
                     ELSE train_model(ts0, mgr, files, now))
        /\ budget' = budget - 1
        /\ UNCHANGED <<mgr, files, now, runs, ml_models, store_state, last>>

\* _train_model, lines 157-166: the data check answers; train() starts and
\* waits for its data.
DataCheck(t, sufficient) ==
    /\ task[t].pc = "data_check"
    /\ IF sufficient
       THEN /\ runs' = runs + 1
            /\ task' = [task EXCEPT ![t].pc = "train_load", ![t].run = runs + 1]
            /\ UNCHANGED <<training_in_progress, training_history, called,
                           count>>
       ELSE /\ Commit(t, Leave(Thread(t), mgr, files, now,
                               Outcome("failed", "Insufficient training data")))
            /\ UNCHANGED runs
    /\ UNCHANGED <<mgr, files, now, ml_models, audit_seen, store_state, budget,
                   last>>

\* _train_model, lines 166-172: train() runs to its end; on success
\* _save_training_metadata starts and waits for the store.
TrainFinish(t, inp) ==
    LET v == task[t].v
        id == TsMgr(v)
        r == train(mgr[id], files[v], task[t].run, now, inp)
        M1 == [mgr EXCEPT ![id] = r.mgr]
        F1 == [files EXCEPT ![v] = r.files]
    IN  /\ task[t].pc = "train_load"
        /\ task[t].op \in {"train_all", "train_specific", "audit"}
        /\ inp.retrain = task[t].force
        /\ mgr' = M1
        /\ files' = F1
        /\ IF r.ok
           THEN /\ task' = [task EXCEPT ![t].pc = "meta_insert", ![t].run = 0]
                /\ store_state' =
                       [store_state EXCEPT ![v] = [run |-> r.result.run,
                                                   clean |-> FALSE]]
                /\ count' = [count EXCEPT !.train_ok = @ + 1]
                /\ UNCHANGED <<training_in_progress, training_history, called>>
           ELSE /\ Commit(t, train_raised(Thread(t), M1, F1, now,
                                          r.failed_at))
                /\ UNCHANGED store_state
        /\ UNCHANGED <<now, runs, ml_models, audit_seen, budget, last>>

\* Variant: a failed write of the row reaches _train_model's except clause.
metadata_outcome_Raise(written) ==
    IF written THEN Outcome("success", "") ELSE Outcome("failed", "insert_one")

\* _train_model, lines 172-181: _save_training_metadata catches whatever
\* its writes raise (298-299), so the call returns 'success' either way.
metadata_outcome(written) == Outcome("success", "")

\* _save_training_metadata, line 284: insert_one answers or raises.
MetaInsert(t, ok) ==
    /\ task[t].pc = "meta_insert"
    /\ IF ok
       THEN /\ ml_models' = Append(ml_models,
                                   Row(task[t].v, store_state[task[t].v].run))
            /\ task' = [task EXCEPT ![t].pc = "meta_update"]
            /\ UNCHANGED <<training_in_progress, training_history, called,
                           count>>
       ELSE /\ Commit(t, Leave([Thread(t) EXCEPT !.n.insert_failed = @ + 1],
                               mgr, files, now, metadata_outcome(FALSE)))
            /\ UNCHANGED ml_models
    /\ UNCHANGED <<mgr, files, now, runs, audit_seen, store_state, budget, last>>

\* _save_training_metadata, lines 287-294: update_many answers or raises.
MetaUpdate(t, ok) ==
    LET v == task[t].v
    IN  /\ task[t].pc = "meta_update"
        /\ IF ok
           THEN /\ ml_models' = update_many(ml_models, v, store_state[v].run)
                /\ store_state' = [store_state EXCEPT ![v].clean = TRUE]
           ELSE UNCHANGED <<ml_models, store_state>>
        /\ Commit(t, Leave(Thread(t), mgr, files, now, metadata_outcome(ok)))
        /\ UNCHANGED <<mgr, files, now, runs, audit_seen, budget, last>>

\* A request: the route builds a PredictionService (fresh managers), then
\* retrain_models(model_types) or the lazy train of predict_payment_delay.
StartRequest(t, op, todo) ==
    /\ CanStart(t)
    /\ runs' = runs + 1
    /\ task' = [task EXCEPT
                  ![t] = [Begin(op, op = "retrain", Tail(todo)) EXCEPT
                            !.v = Head(todo), !.pc = "train_load",
                            !.run = runs + 1]]
    /\ budget' = budget - 1
    /\ UNCHANGED <<mgr, files, now, training_in_progress, training_history,
                   ml_models, called, audit_seen, store_state, count, last>>

\* retrain_models, lines 315-327, and _ensure_model_trained: train() of the
\* request's manager runs to its end; retrain_models goes on with the next.
RequestTrainFinish(t, inp) ==
    LET v == task[t].v
        id == PsMgr(v)
        r == train(mgr[id], files[v], task[t].run, now, inp)
        done == [task[t] EXCEPT
                   !.results[v] = Outcome(IF r.ok THEN "success" ELSE "failed",
                                          r.failed_at)]
    IN  /\ task[t].pc = "train_load"
        /\ task[t].op \in {"retrain", "predict"}
        /\ inp.retrain = task[t].force
        /\ files' = [files EXCEPT ![v] = r.files]
        /\ IF done.todo = <<>> \/ (task[t].op = "predict" /\ ~r.ok)
           THEN \* the request ends and its PredictionService is dropped
                /\ mgr' = [mgr EXCEPT
                              !["ps_delay"] = NewManager("payment_delay"),
                              !["ps_amount"] = NewManager("payment_amount")]
                /\ task' = [task EXCEPT ![t] = [done EXCEPT !.op = "idle",
                                                            !.pc = "idle",
                                                            !.run = 0]]
                /\ UNCHANGED runs
           ELSE /\ mgr' = [mgr EXCEPT ![id] = r.mgr]
                /\ task' = [task EXCEPT
                              ![t] = [done EXCEPT !.v = Head(done.todo),
                                                  !.todo = Tail(done.todo),
                                                  !.run = runs + 1]]
                /\ runs' = runs + 1
        /\ UNCHANGED <<now, training_in_progress, training_history, ml_models,
                       called, audit_seen, store_state, count, budget, last>>

At(pc) == {t \in TaskIds : task[t].pc = pc}

RetrainChoices ==
    { <<"payment_delay", "payment_amount">>, <<"payment_delay">>,
      <<"payment_amount">> }

Next ==
    \/ Tick
    \/ StartTrainAll("periodic", FALSE)
    \/ \E v \in Variants : \E force \in BOOLEAN :
           StartTrainSpecific("manual", v, force)
    \/ StartAudit("audit")
    \/ \E t \in At("data_check") : \E sufficient \in BOOLEAN :
           DataCheck(t, sufficient)
    \/ \E t \in At("train_load") \ {"request"} :
           \E inp \in SchedTrainInputs(task[t].v) : TrainFinish(t, inp)
    \/ \E t \in At("meta_insert") : \E ok \in BOOLEAN : MetaInsert(t, ok)
    \/ \E t \in At("meta_update") : \E ok \in BOOLEAN : MetaUpdate(t, ok)
    \/ \E todo \in RetrainChoices : StartRequest("request", "retrain", todo)
    \/ StartRequest("request", "predict", <<"payment_delay">>)
    \/ \E t \in At("train_load") \cap {"request"} :
           \E inp \in RequestTrainInputs(task[t].v) : RequestTrainFinish(t, inp)

Spec == InitSched /\ [][Next]_vars

---------------------------------------------------------------------------
(* Claims on the TrainingService and the process (Spec).                   *)

TsTasks == {"periodic", "audit", "manual"}
AllIdle == \A t \in TaskIds : task[t].op = "idle"

\* The tasks of the TrainingService that are between line 141 and the
\* finally clause of _train_model for variant v.
Holders(v) ==
    {t \in TsTasks :
        /\ task[t].v = v
        /\ task[t].pc \in {"data_check", "train_load", "meta_insert",
                           "meta_update"}}

InFlightSkip == Outcome("skipped", "Training already in progress")

\* C1: within one TrainingService, of the _train_model calls for one variant
\* that overlap, one holds the Training state (and only it can be in
\* model.train); a call that found the variant in flight has already
\* returned skipped / "Training already in progress" and never holds it.
C1_InFlightGuard ==
    \A v \in Variants :
        /\ Cardinality(Holders(v)) <= 1
        /\ (v \in training_in_progress) <=> (Holders(v) # {})
        /\ \A t \in TsTasks :
               /\ called[t][v].at = "busy" =>
                      /\ t \notin Holders(v)
                      /\ task[t].results[v] = InFlightSkip
               /\ called[t][v].at = "free" =>
                      task[t].results[v] # InFlightSkip

C1_Witness ==
    \E v \in Variants : \E t1, t2 \in TsTasks :
        /\ t1 # t2
        /\ t1 \in Holders(v)
        /\ task[t1].pc = "train_load"
        /\ called[t1][v].at = "free"
        /\ called[t2][v].at = "busy"
        /\ task[t2].results[v] = InFlightSkip

\* C2: in the whole process at most one execution of BaseMLModel.train is in
\* flight per variant, whichever entry point started it.
C2_OneTrainPerVariant ==
    \A v \in Variants :
        Cardinality({t \in TaskIds :
                        task[t].pc = "train_load" /\ task[t].v = v}) <= 1

\* C6: train_all_models(force_retrain = false) does not train a variant that
\* has a persisted or in-memory artifact younger than the retrain interval;
\* the variant's outcome is skipped.
C6_RecentArtifactSkipped ==
    \A v \in Variants :
        called["periodic"][v].recent =>
            /\ "periodic" \notin Holders(v)
            /\ task["periodic"].results[v].status = "skipped"

\* The variants an audit run read as trained with metrics below the
\* thresholds of their category.
AuditTargets ==
    {v \in Variants :
        /\ audit_seen.of[v].trained
        /\ LET metrics == audit_seen.of[v].metrics
           IN  IF Category(v) = "classification"
               THEN \/ metrics.accuracy < MIN_MODEL_ACCURACY
                    \/ metrics.precision < MIN_MODEL_PRECISION
                    \/ metrics.recall < MIN_MODEL_RECALL
               ELSE metrics.r2_score < MIN_R2_SCORE}

AuditCalled == {v \in Variants : called["audit"][v].at # "none"}
AuditPending ==
    {task["audit"].todo[i] : i \in 1..Len(task["audit"].todo)}

\* C7: an audit run calls train_specific_model, with force_retrain = true,
\* for exactly the variants it read as trained with metrics below their
\* category thresholds, and for no untrained or passing variant.
C7_AuditRetrainsFailing ==
    audit_seen.n > 0 =>
        /\ AuditCalled \cup AuditPending = AuditTargets
        /\ AuditCalled \cap AuditPending = {}
        /\ task["audit"].op = "idle" => AuditCalled = AuditTargets
        /\ task["audit"].op # "idle" => task["audit"].force
        /\ \A v \in AuditCalled :
               /\ task["audit"].results[v].reason # "Model is recent enough"
               /\ called["audit"][v].at = "free" =>
                      task["audit"].results[v].status # "skipped"

C7_Witness ==
    /\ audit_seen.n > 0
    /\ task["audit"].op = "idle"
    /\ \E v, w \in Variants :
           /\ called["audit"][v].at = "free"
           /\ task["audit"].results[v].status = "success"
           /\ audit_seen.of[w].trained
           /\ w \notin AuditTargets
           /\ called["audit"][w].at = "none"

TsIdle == \A t \in TsTasks : task[t].op = "idle"

\* C8: every completed _train_model call of the TrainingService has appended
\* one session to training_history and written one row to the store.
C8_EveryAttemptRecorded ==
    TsIdle =>
        /\ Len(training_history) = count.attempts
        /\ Len(ml_models) = count.attempts

\* C8, as the code has it: one session per completed train_all_models call
\* (none for train_specific_model or the audit), holding an outcome for each
\* variant; one row per run whose model.train succeeded and whose insert_one
\* answered, none for a failed or skipped attempt.
C8_SessionPerCallRowPerSuccess ==
    /\ Len(training_history) =
           IF count.all_calls < HISTORY_CAP THEN count.all_calls
           ELSE HISTORY_CAP
    /\ \A i \in DOMAIN training_history : \A v \in Variants :
           training_history[i].results[v].status
               \in {"success", "failed", "skipped"}
    /\ Len(ml_models) =
           count.train_ok - count.insert_failed
               - Cardinality(At("meta_insert"))
    /\ count.train_ok <= count.attempts + Cardinality(At("meta_insert"))
                             + Cardinality(At("meta_update"))

C8_Witness ==
    /\ TsIdle
    /\ count.attempts = 3
    /\ count.train_ok = 1
    /\ Len(training_history) = 1
    /\ Len(ml_models) = 1

ActiveRows(v) ==
    {i \in DOMAIN ml_models :
        ml_models[i].model_type = v /\ ml_models[i].status = "active"}

Saving(v) ==
    \E t \in TsTasks :
        task[t].v = v /\ task[t].pc \in {"meta_insert", "meta_update"}

C9_StoreState ==
    \A v \in Variants :
        (store_state[v].run # 0 /\ store_state[v].clean) =>
            /\ ~Saving(v)
            /\ Cardinality(ActiveRows(v)) = 1
            /\ \A i \in ActiveRows(v) : ml_models[i].version = store_state[v].run

C9_StoreStep ==
    /\ Len(ml_models') >= Len(ml_models)
    /\ \A i \in DOMAIN ml_models :
           ml_models'[i] # ml_models[i] =>
               /\ ml_models'[i] = [ml_models[i] EXCEPT !.status = "inactive"]
               /\ \E t \in At("meta_update") :
                      task[t].v = ml_models[i].model_type

---------------------------------------------------------------------------
(* SpecHist: the periodic job, run more often than the history holds, over *)
(* a store that has too little data to train on.                           *)

InitHist == InitCommon /\ budget = MaxSessions /\ last = NoLast

HistTick == AllIdle /\ Tick

NextHist ==
    \/ HistTick
    \/ StartTrainAll("periodic", FALSE)
    \/ \E t \in At("data_check") : DataCheck(t, FALSE)

SpecHist == InitHist /\ [][NextHist]_vars

C10_Bounded ==
    /\ Len(training_history) <= HISTORY_CAP
    /\ Len(training_history) =
           IF count.all_calls < HISTORY_CAP THEN count.all_calls
           ELSE HISTORY_CAP

C10_Step ==
    /\ training_history' # training_history => count'.all_calls # count.all_calls
    /\ count'.all_calls # count.all_calls =>
        /\ count'.all_calls = count.all_calls + 1
        /\ Len(training_history') >= 1
        /\ training_history'[Len(training_history')].timestamp = now
        /\ training_history' =
               (IF Len(training_history) < HISTORY_CAP THEN training_history
                ELSE Tail(training_history))
                   \o <<training_history'[Len(training_history')]>>

\* C10: training_history never holds more than 50 sessions; after n
\* train_all_models calls it holds the latest min(n, 50) sessions in the
\* order they were appended: each call appends its session at the end and,
\* when 50 are held, drops the oldest.
C10_HistoryKeepsLatest50 == [](C10_Bounded) /\ [][C10_Step]_vars

C10_Witness ==
    /\ count.all_calls = HISTORY_CAP + 2
    /\ Len(training_history) = HISTORY_CAP
    /\ training_history[1].timestamp < training_history[HISTORY_CAP].timestamp

---------------------------------------------------------------------------
(* Claims on the manager, continued (SpecMgr).                             *)

LastV == VariantOf(last.id)
NothingPersisted(f) == f.model = NoEstimator \/ f.meta = NoMetadata

\* C12: predict() on an untrained manager with no persisted artifact fails
\* with NotTrained and leaves the manager untrained; the same call right
\* after a successful train() on that manager succeeds.
C12_NotTrainedUntilTrained ==
    /\ (last.op = "predict" /\ ~last.before.is_trained
            /\ last.files_before = NoFiles) =>
           /\ ~last.ok
           /\ last.failed_at = "NotTrained"
           /\ ~mgr[last.id].is_trained
    /\ (last.op = "predict" /\ last.prev.op = "train" /\ last.prev.ok
            /\ last.prev.id = last.id) =>
           last.ok

\* C13: predict() and predict_proba() on an untrained manager load the
\* persisted artifact first: with both files present the call succeeds and
\* the manager is left trained with that artifact; NotTrained is raised only
\* when a file is missing.
C13_LazyLoadThenAnswer ==
    (last.op \in {"predict", "predict_proba"} /\ ~last.before.is_trained) =>
        /\ FilesExist(last.files_before) =>
               /\ last.ok
               /\ mgr[last.id].is_trained
               /\ mgr[last.id].model = last.files_before.model
               /\ mgr[last.id].model_metadata = last.files_before.meta
        /\ last.failed_at = "NotTrained" => NothingPersisted(last.files_before)

\* The managers of the last call's variant that hold what the files hold.
Savers ==
    {a \in MgrIds :
        /\ VariantOf(a) = LastV
        /\ a # last.id
        /\ mgr[a].is_trained
        /\ mgr[a].model = files[LastV].model
        /\ mgr[a].model_metadata = files[LastV].meta}

\* C14: a fresh manager that loads what a trained manager saved gives, for
\* every input, the predict() result of the manager that saved.
C14_RoundTripSamePredictions ==
    (last.op = "load" /\ last.ok /\ last.before = NewManager(LastV)) =>
        \A a \in Savers : \A c \in PredictCats :
            LET saved == predict(mgr[a], files[LastV], "none", c)
                fresh == predict(mgr[last.id], files[LastV], "none", c)
            IN  saved.ok = fresh.ok /\ saved.answer = fresh.answer

\* C15: load_model never activates an estimator together with the metadata
\* of a different training run.
C15_LoadsMatchedPair ==
    (last.op = "load" /\ last.ok) =>
        mgr[last.id].model.fit = mgr[last.id].model_metadata.run

\* C16: load_model() with the estimator file or the metadata file missing
\* returns false, raises nothing and leaves the manager as it was.
C16_LoadNothingPersisted ==
    (last.op = "load"
        /\ (last.files_before.model = NoEstimator
               \/ last.files_before.meta = NoMetadata)) =>
        /\ ~last.ok
        /\ ~last.raised
        /\ mgr[last.id] = last.before
        /\ files[LastV] = last.files_before

C16_Witness ==
    /\ last.op = "load"
    /\ last.files_before.model # NoEstimator
    /\ last.files_before.meta = NoMetadata
    /\ ~last.ok
    /\ last.before.is_trained

\* C17: an I/O failure while writing the artifact makes train() fail, and an
\* I/O failure while reading an existing artifact makes load_model() raise.
C17_IOFailuresPropagate ==
    /\ (last.op = "train" /\ last.failed_at \in {"save_dump", "save_meta"}) =>
           last.raised
    /\ (last.op = "load" /\ last.io \in {"joblib_load", "json_load"}) =>
           last.raised

\* C18: train() on fewer than MIN_TRAINING_DATA_SIZE rows fails at the size
\* check, before feature preparation, and leaves the manager and the files
\* as they were; a train() with enough rows right after it succeeds unless
\* one of its own steps raises.
C18_TooFewRowsChangesNothing ==
    /\ (last.op = "train" /\ last.rows < MIN_TRAINING_DATA_SIZE) =>
           /\ ~last.ok
           /\ last.failed_at = "size"
           /\ mgr[last.id] = last.before
           /\ files[LastV] = last.files_before
    /\ (last.op = "train" /\ last.rows >= MIN_TRAINING_DATA_SIZE) =>
           last.failed_at # "size"

C18_Witness ==
    /\ last.op = "train"
    /\ last.ok
    /\ last.prev.op = "train"
    /\ last.prev.id = last.id
    /\ last.prev.failed_at = "size"

\* The last call was a train() that reached its evaluation and scored below
\* the thresholds, and neither write of save_model raised.
LowScoreRun ==
    /\ last.op = "train"
    /\ mgr[last.id].model_metadata.run = runs
    /\ ~meets_performance_requirements(mgr[last.id].model_metadata.metrics,
                                       Category(LastV))
    /\ last.failed_at \notin {"save_dump", "save_meta"}

\* C19: a run whose scores miss the thresholds completes all the same:
\* train() returns, the manager is trained, the artifact on disk is this
\* run's, and predict() answers with this run's estimator.
C19_LowScoreStillServes ==
    LowScoreRun =>
        /\ last.ok
        /\ mgr[last.id].is_trained
        /\ mgr[last.id].model.fit = runs
        /\ files[LastV] = [model |-> mgr[last.id].model,
                           meta |-> mgr[last.id].model_metadata]
        /\ \A c \in Classes(TrainCats) :
               LET r == predict(mgr[last.id], files[LastV], "none", c)
               IN  r.ok /\ r.answer.fit = runs

C19_Witness ==
    /\ LowScoreRun
    /\ last.ok
    /\ ~last.before.is_trained
    /\ files[LastV].meta.run = runs

\* C20: predict_proba() on a trained regressor fails with
\* UnsupportedOperation and leaves the manager as it was; on an untrained
\* manager with no complete artifact on disk it fails with NotTrained.
C20_ProbaOnlyForClassifier ==
    /\ (last.op = "predict_proba" /\ last.before.is_trained
           /\ Category(LastV) = "regression") =>
           /\ ~last.ok
           /\ last.failed_at = "UnsupportedOperation"
           /\ mgr[last.id] = last.before
    /\ (last.op = "predict_proba" /\ ~last.before.is_trained
           /\ NothingPersisted(last.files_before)) =>
           /\ ~last.ok
           /\ last.failed_at = "NotTrained"
           /\ ~mgr[last.id].is_trained

C20_Witness ==
    /\ last.op = "predict_proba"
    /\ last.before.is_trained
    /\ Category(LastV) = "regression"
    /\ last.failed_at = "UnsupportedOperation"
    /\ last.prev.op = "predict_proba"
    /\ last.prev.failed_at = "NotTrained"

\* A prediction-mode call: predict() or predict_proba().
PredictionCall == last.op \in {"predict", "predict_proba"}

\* C28: the category encoder of a manager is fitted once, by a training
\* call; a prediction-mode call never fits it, and a call on a manager that
\* holds a fitted encoder leaves that encoder as it was.
C28_EncoderFittedOnceAtTraining ==
    /\ PredictionCall =>
           mgr[last.id].label_encoders = last.before.label_encoders
    /\ (last.op \in {"train", "predict", "predict_proba"}
           /\ last.before.label_encoders # <<>>) =>
           mgr[last.id].label_encoders = last.before.label_encoders

\* C29: a prediction on a row whose category the fitted encoder has not
\* seen does not fail: a served, fitted estimator returns its answer.
C29_UnseenCategoryAnswers ==
    (PredictionCall
        /\ last.before.label_encoders # <<>>
        /\ last.cat \notin Classes(last.before.label_encoders)
        /\ mgr[last.id].is_trained
        /\ mgr[last.id].model.fit > 0) =>
        last.ok

\* C30: predict() and predict_proba() never refit the scaler: its
\* statistics after the call are those it had before the call.
C30_ScalerFitOnlyAtTraining ==
    PredictionCall => mgr[last.id].scaler = last.before.scaler

\* A train() that made its split, and the estimator instance it left in the
\* manager: created by this run, or the one held before the call.
SplitRun == last.op = "train" /\ last.split # "none"
NewInstance == mgr[last.id].model.inst = runs
SameInstance == mgr[last.id].model.inst = last.before.model.inst

\* C31: every train() of the payment_delay variant splits stratified, also
\* the first run of a manager that holds no estimator; every train() of the
\* payment_amount variant splits plain.
C31_SplitFollowsVariant ==
    SplitRun =>
        last.split = IF Category(VariantOf(last.id)) = "classification"
                     THEN "stratified" ELSE "plain"

\* C32 as stated: train(retrain = false) leaves a new estimator instance,
\* train(retrain = true) fits the held instance again, and a manager that
\* held no estimator gets a new instance.
C32_NewInstanceUnlessRetrain ==
    SplitRun =>
        IF last.before.model = NoEstimator \/ ~last.retrain
        THEN NewInstance ELSE SameInstance

\* C32: train(retrain = true) leaves a new estimator instance; so does any
\* train() on a manager that held no estimator; train(retrain = false) on
\* a manager that holds an estimator fits that instance again. A run that
\* gets past the fit leaves the instance fitted on this run's data.
C32_NewInstanceWhenRetrain ==
    SplitRun =>
        /\ IF last.before.model = NoEstimator \/ last.retrain
           THEN NewInstance ELSE SameInstance
        /\ Passed(last.failed_at, "fit") => mgr[last.id].model.fit = runs

C32_Witness ==
    /\ SplitRun /\ last.ok /\ ~last.retrain
    /\ last.before.model.inst > 0
    /\ SameInstance /\ ~NewInstance
    /\ mgr[last.id].model.fit = runs
    /\ last.before.model.fit < runs

\* C37: a prediction that follows a successful train() of the
\* TrainingService's manager of the variant is answered by the estimator
\* that run fitted, whichever manager of the variant serves it.
C37_PredictionsUseLatestArtifact ==
    (PredictionCall /\ last.ok
        /\ last.prev.op = "train" /\ last.prev.ok
        /\ last.prev.id = TsMgr(LastV)) =>
        /\ last.answer.fit = mgr[TsMgr(LastV)].model.fit
        /\ last.answer.fit = last.files_before.model.fit

---------------------------------------------------------------------------
(* Claims on the tasks, continued (Spec).                                  *)

\* C11: in a train_all_models call a failed payment_delay attempt is always
\* followed by the payment_amount attempt, and the session the call records
\* holds an outcome for both variants.
C11_DelayFailureDoesNotStopAmount ==
    /\ \A t \in TaskIds :
           (task[t].op = "train_all"
               /\ task[t].results["payment_delay"].status = "failed") =>
               called[t]["payment_amount"].at # "none"
    /\ \A i \in DOMAIN training_history :
           training_history[i].results["payment_delay"].status = "failed" =>
               training_history[i].results["payment_amount"] # NoOutcome

C11_Witness ==
    \E i \in DOMAIN training_history :
        /\ training_history[i].results["payment_delay"].status = "failed"
        /\ training_history[i].results["payment_amount"].status = "success"

\* A run of train() of the payment_delay variant that task t has in flight,
\* and the step that ends it (a task waiting in train() moves only so).
DelayRun(t) == task[t].pc = "train_load" /\ task[t].v = "payment_delay"
EndsDelayRun(t) == DelayRun(t) /\ task'[t] # task[t]

\* The run of t ends while the lazy train of a predict_payment_delay request
\* and a run of the TrainingService are both in flight, or after the other
\* of the two, started later, has already saved.
OverlapsNow(t) ==
    /\ task["request"].op = "predict"
    /\ \E u \in TaskIds \ {t} : DelayRun(u) /\ "request" \in {t, u}
OverlappedBefore(t) ==
    /\ files["payment_delay"].model.fit > task[t].run
    /\ IF t = "request" THEN task[t].op = "predict"
       ELSE /\ ~task["request"].force
            /\ task["request"].results["payment_delay"].status = "success"

\* How the run of t ended, read from the step.
RunSucceeded(t) ==
    IF t = "request"
    THEN task'[t].results["payment_delay"].status = "success"
    ELSE task'[t].pc = "meta_insert"
RunRaisedOnIO(t) ==
    /\ task'[t].results["payment_delay"].status = "failed"
    /\ task'[t].results["payment_delay"].reason \in SchedFailChoices \ {"none"}

C33_Step ==
    \A t \in TaskIds :
        (EndsDelayRun(t) /\ (OverlapsNow(t) \/ OverlappedBefore(t))) =>
            /\ RunSucceeded(t) \/ RunRaisedOnIO(t)
            /\ RunSucceeded(t) =>
                   /\ files'["payment_delay"].model.fit = task[t].run
                   /\ files'["payment_delay"].meta.run = task[t].run

\* C33: when the lazy train of predict_payment_delay and a training of the
\* TrainingService for payment_delay overlap, neither run fails because of
\* the other (a run ends in success unless its own read or write raises),
\* and each run that succeeds leaves both files of the artifact its own, so
\* that after both the estimator file and the metadata file are those of
\* the run that saved last.
C33_LastWriterWins == [][C33_Step]_vars

\* The request's lazy run 1 saved after the TrainingService's run 2 did.
C33_Witness ==
    /\ task["request"].op = "idle" /\ ~task["request"].force
    /\ task["request"].results["payment_delay"].status = "success"
    /\ mgr["ts_delay"].is_trained /\ mgr["ts_delay"].model.fit = 2
    /\ store_state["payment_delay"].run = 2
    /\ files["payment_delay"].model.fit = 1
    /\ files["payment_delay"].meta.run = 1

\* The step in which insert_one of task t raises.
InsertFails(t) ==
    task[t].pc = "meta_insert" /\ task'[t].pc \notin {"meta_insert", "meta_update"}

C34_Step ==
    \A t \in TaskIds :
        InsertFails(t) =>
            LET v == task[t].v
                m == mgr'[TsMgr(v)]
            IN  /\ task'[t].results[v].status = "success"
                /\ ml_models' = ml_models
                /\ mgr' = mgr /\ files' = files
                /\ m.is_trained
                /\ m.model.fit = store_state[v].run
                /\ m.model_metadata.run = store_state[v].run

\* C34: when insert_one of the history row raises after train() has saved
\* the artifact, _train_model returns status 'success', the manager keeps
\* serving the artifact of that run, the files are left as they are, and
\* no row of the collection changes.
C34_RowWriteFailureIgnored == [][C34_Step]_vars

\* A retrain whose row was not written: the row of the earlier run of the
\* variant is still the active one.
C34_Witness ==
    \E v \in Variants :
        /\ count.insert_failed = 1
        /\ task["manual"].op = "idle"
        /\ task["manual"].results[v].status = "success"
        /\ mgr[TsMgr(v)].model.fit = store_state[v].run
        /\ files[v].meta.run = store_state[v].run
        /\ Len(ml_models) = 1
        /\ ml_models[1].model_type = v
        /\ ml_models[1].status = "active"
        /\ ml_models[1].version # store_state[v].run

\* The variants some _train_model call of the TrainingService is working on.
Executing == {v \in Variants : Holders(v) # {}}

C35_Released ==
    /\ training_in_progress \subseteq Executing
    /\ TsIdle => training_in_progress = {}

\* A call that held the entry of v ends, or goes on to another variant.
C35_Step ==
    \A v \in Variants : \A t \in Holders(v) :
        (task'[t].op = "idle" \/ task'[t].v # v) =>
            /\ v \notin training_in_progress'
            /\ task'[t].results[v].status \in {"success", "failed"}

\* C35: a _train_model call that set the entry of a variant removes it when
\* it ends, whether it ends in success, for want of data or on an exception
\* of train(); a call skipped for a recent artifact leaves no entry. No
\* entry is left without an executing call, and with no call executing
\* training_in_progress is empty.
C35_EntryRemovedOnEveryPath == [](C35_Released) /\ [][C35_Step]_vars

\* One train_all_models call has gone through failure of one variant and
\* success of the other, and a second call has been skipped for a recent
\* artifact; nothing is in flight.
C35_Witness ==
    /\ TsIdle /\ training_in_progress = {}
    /\ \E t, u \in TsTasks : \E v, w \in Variants :
           /\ task[t].results[v].status = "failed"
           /\ task[t].results[v].reason = "load"
           /\ task[t].results[w].status = "success"
           /\ task[u].results[w] = Outcome("skipped", "Model is recent enough")

\* A call arrives while v is in flight and is skipped.
SkippedInFlight(t, v) ==
    /\ task[t].op = "idle"
    /\ called[t][v].at # "busy"
    /\ called'[t][v].at = "busy"
    /\ task'[t].results[v] = InFlightSkip

C36_Step ==
    \A v \in Variants :
        /\ \A t \in TsTasks :
               SkippedInFlight(t, v) =>
                   /\ v \in training_in_progress
                   /\ v \in training_in_progress'
                   /\ \A u \in Holders(v) : task'[u] = task[u]
        /\ (v \in training_in_progress /\ v \notin training_in_progress') =>
               \E u \in Holders(v) : task'[u] # task[u]

\* C36: a _train_model call skipped because its variant is in training
\* leaves the entry and the running call as they are, and an entry is
\* removed only in a step of the call that set it.
C36_SkippedCallKeepsEntry == [][C36_Step]_vars

\* A skipped call has come and gone; the running call still holds the entry.
C36_Witness ==
    \E v \in Variants : \E t, u \in TsTasks :
        /\ t # u
        /\ task[t].op = "idle"
        /\ called[t][v].at = "busy"
        /\ task[t].results[v] = InFlightSkip
        /\ u \in Holders(v)
        /\ task[u].pc = "meta_update"
        /\ v \in training_in_progress

\* A predict_payment_delay request enters train() of its manager.
LazyTrainStarts ==
    /\ task["request"].op = "idle"
    /\ task'["request"].op = "predict"
    /\ task'["request"].pc = "train_load"
    /\ task'["request"].v = "payment_delay"

\* C38: predict_payment_delay starts a training run only when no artifact
\* of payment_delay is persisted; with an artifact on disk and a manager
\* not yet trained in memory the request loads and does not train.
C38_TrainsOnlyWithoutArtifact ==
    [][LazyTrainStarts => ~FilesExist(files["payment_delay"])]_vars

\* The periodic jobs of the scheduler: _scheduled_training and
\* _check_model_performance.
Jobs == {"periodic", "audit"}

\* Something fails in this step of job t: the data check reports too
\* little data (or raised), train() raises, or a write of
\* _save_training_metadata raises.
FailsIn(t) ==
    /\ task'[t] # task[t]
    /\ \/ task[t].pc = "data_check" /\ task'[t].pc # "train_load"
       \/ task[t].pc = "train_load" /\ task'[t].pc # "meta_insert"
       \/ InsertFails(t)
       \/ task[t].pc = "meta_update" /\ ~store_state'[task[t].v].clean

\* The job goes on with its next variant, or has ended normally; the
\* periodic job has then recorded its session.
GoesOn(t) ==
    /\ task'[t].results[task[t].v].status \in {"failed", "success"}
    /\ task[t].v \notin training_in_progress'
    /\ \/ task'[t].op = task[t].op /\ task'[t].pc = "data_check"
       \/ /\ task'[t].op = "idle" /\ task'[t].pc = "idle"
          /\ t = "periodic" =>
                 /\ Len(training_history') = Len(training_history) + 1
                 /\ training_history'[Len(training_history')].results
                        = task'[t].results

C39_Running ==
    \A t \in Jobs :
        /\ task[t].pc \in {"idle", "data_check", "train_load", "meta_insert",
                           "meta_update"}
        /\ task[t].op = "idle" <=> task[t].pc = "idle"

C39_Step == \A t \in Jobs : FailsIn(t) => GoesOn(t)

\* C39: whatever fails in a run of a periodic job (data check, train(),
\* the writes of the history row), the job does not raise: it records the
\* outcome, goes on with its next variant and ends as a job that returned,
\* so that the scheduler fires it again.
C39_JobsNeverRaise == [](C39_Running) /\ [][C39_Step]_vars

\* The periodic job has fired again after a run in which train() raised.
C39_Witness ==
    /\ Len(training_history) = 1
    /\ training_history[1].results["payment_delay"].status = "failed"
    /\ training_history[1].results["payment_delay"].reason = "load"
    /\ task["periodic"].op = "train_all"
    /\ task["periodic"].pc = "train_load"

---------------------------------------------------------------------------
(* PredictionService (services/prediction_service.py). Probabilities are   *)
(* in ten-thousandths, risk scores and rule thresholds in tenths.          *)

HIGH_RISK_PROBABILITY == 7000
MEDIUM_RISK_PROBABILITY == 4000

\* Variant: the Medium tier starts above its breakpoint.
calculate_risk_level_ExclusiveMedium(probability) ==
    IF probability >= HIGH_RISK_PROBABILITY THEN "High"
    ELSE IF probability > MEDIUM_RISK_PROBABILITY THEN "Medium"
    ELSE "Low"

\* _calculate_risk_level
calculate_risk_level(probability) ==
    IF probability >= HIGH_RISK_PROBABILITY THEN "High"
    ELSE IF probability >= MEDIUM_RISK_PROBABILITY THEN "Medium"
    ELSE "Low"

\* The customers collection: the customerCategory of each record. "c0" has
\* no record.
CustomerCategory == [c1 |-> "A", c2 |-> "B", c3 |-> "C"]
CustomerIds == DOMAIN CustomerCategory \cup {"c0"}

\* Variant: an id without a record gets a default record.
get_customer_data_DefaultRecord(customer_id) ==
    [found |-> TRUE, category |-> "A"]

\* _get_customer_data: the record, or None.
get_customer_data(customer_id) ==
    IF customer_id \in DOMAIN CustomerCategory
    THEN [found |-> TRUE, category |-> CustomerCategory[customer_id]]
    ELSE [found |-> FALSE, category |-> "A"]

\* _ensure_model_trained: train() with its defaults when the manager is
\* not trained. ran: a training run was executed.
ensure_model_trained(m, f, run, t, inp) ==
    IF m.is_trained
    THEN [mgr |-> m, files |-> f, ok |-> TRUE, failed_at |-> "none",
          ran |-> FALSE]
    ELSE CHOOSE ens \in
             {[mgr |-> r.mgr, files |-> r.files, ok |-> r.ok,
               failed_at |-> r.failed_at, ran |-> TRUE] :
                 r \in {train(m, f, run, t, inp)}} : TRUE

NoPrediction == [customer_id |-> "c0", delay_probability |-> 0,
                 risk_level |-> "none"]

\* Lines 100-102: whatever raises inside predict_payment_delay is logged
\* and re-raised. mg: the manager as the failed step left it.
Reraise(ens, mg, e) ==
    [mgr |-> mg, files |-> ens.files, ok |-> FALSE, error |-> e,
     ran |-> ens.ran, train_failed_at |-> ens.failed_at,
     result |-> NoPrediction]

\* Lines 81-98: predict() on the row, then the result. p: the probability
\* of delay that predict_proba returned.
delay_result(ens, customer_id, category, p, delay_prob) ==
    CHOOSE out \in
        {IF ~delay_prediction.ok
         THEN Reraise(ens, delay_prediction.mgr, delay_prediction.error)
         ELSE [mgr |-> delay_prediction.mgr, files |-> ens.files,
               ok |-> TRUE, error |-> "none", ran |-> ens.ran,
               train_failed_at |-> "none",
               result |-> [customer_id |-> customer_id,
                           delay_probability |-> p,
                           risk_level |-> calculate_risk_level(p)]] :
            delay_prediction \in {predict(delay_prob.mgr, ens.files, "none",
                                          category)}} : TRUE

\* Lines 63-80: the customer record, the one-row frame, predict_proba().
delay_for_customer(ens, customer_id, p) ==
    LET customer_data == get_customer_data(customer_id)
    IN  IF ~ens.ok THEN Reraise(ens, ens.mgr, "TrainingFailed")
        ELSE IF ~customer_data.found
        THEN Reraise(ens, ens.mgr, "CustomerNotFound")
        ELSE CHOOSE out \in
                 {IF ~delay_prob.ok
                  THEN Reraise(ens, delay_prob.mgr, delay_prob.error)
                  ELSE delay_result(ens, customer_id,
                                    customer_data.category, p, delay_prob) :
                     delay_prob \in {predict_proba(ens.mgr, ens.files,
                                                   "none",
                                                   customer_data.category)}} :
                 TRUE

\* predict_payment_delay for one customer. p: the probability of delay the
\* estimator gives for the row.
predict_payment_delay(m, f, run, t, customer_id, p, inp) ==
    CHOOSE out \in
        {delay_for_customer(ens, customer_id, p) :
            ens \in {ensure_model_trained(m, f, run, t, inp)}} : TRUE

\* predict_payment_delay_bulk. st: the loop's variables (predictions and
\* the three counters), the manager and files the calls go through, the
\* number of training runs used, and the outcome of each call made.
BulkStart(m, f, run) ==
    [mgr |-> m, files |-> f, run |-> run, predictions |-> <<>>,
     high |-> 0, medium |-> 0, low |-> 0, attempts |-> <<>>,
     aborted |-> FALSE]

\* Variant: a failed id ends the batch.
skip_failed_Abort(st) == [st EXCEPT !.aborted = TRUE]

\* Lines 132-134: the failure of one id is logged; the loop continues.
skip_failed(st) == st

\* Lines 122-130: the prediction is appended and its tier counted.
count_prediction(st, prediction) ==
    [st EXCEPT
       !.predictions = Append(@, prediction),
       !.high = IF prediction.risk_level = "High" THEN @ + 1 ELSE @,
       !.medium = IF prediction.risk_level = "Medium" THEN @ + 1 ELSE @,
       !.low = IF prediction.risk_level \notin {"High", "Medium"}
               THEN @ + 1 ELSE @]

\* One pass of the loop, lines 116-134: the call for one id, then the
\* bookkeeping. r: what the call returned.
bulk_step(st, customer_id, r) ==
    LET st1 == [st EXCEPT
                  !.mgr = r.mgr,
                  !.files = r.files,
                  !.run = IF r.ran THEN @ + 1 ELSE @,
                  !.attempts = Append(@, [customer_id |-> customer_id,
                                          ok |-> r.ok, error |-> r.error])]
    IN  IF r.ok THEN count_prediction(st1, r.result) ELSE skip_failed(st1)

RECURSIVE bulk_loop(_, _, _, _, _)
bulk_loop(st, customer_ids, probs, t, inp) ==
    IF customer_ids = <<>> \/ st.aborted THEN st
    ELSE CHOOSE out \in
             {bulk_loop(st2, Tail(customer_ids), Tail(probs), t, inp) :
                 st2 \in {bulk_step(st, Head(customer_ids), r) :
                     r \in {predict_payment_delay(
                                st.mgr, st.files, st.run + 1, t,
                                Head(customer_ids), Head(probs), inp)}}} :
             TRUE

NoSummary == [total_customers |-> 0, successful_predictions |-> 0,
              high_risk_customers |-> 0, medium_risk_customers |-> 0,
              low_risk_customers |-> 0]

predict_payment_delay_bulk(m, f, run, t, customer_ids, probs, inp) ==
    LET st == CHOOSE out \in {bulk_loop(BulkStart(m, f, run), customer_ids,
                                        probs, t, inp)} : TRUE
    IN  [mgr |-> st.mgr, files |-> st.files, run |-> st.run,
         ok |-> ~st.aborted, attempts |-> st.attempts,
         predictions |-> IF st.aborted THEN <<>> ELSE st.predictions,
         summary |->
             IF st.aborted THEN NoSummary
             ELSE [total_customers |-> Len(customer_ids),
                   successful_predictions |-> Len(st.predictions),
                   high_risk_customers |-> st.high,
                   medium_risk_customers |-> st.medium,
                   low_risk_customers |-> st.low]]

\* assess_customer_risk: weights and thresholds, in tenths.
UTILIZATION_LIMIT == 8
UTILIZATION_WEIGHT == 3
LATE_RATIO_LIMIT == 2
LATE_PAYMENT_WEIGHT == 4
OUTSTANDING_SHARE == 5
OUTSTANDING_WEIGHT == 2
HIGH_RISK_SCORE == 7
MEDIUM_RISK_SCORE == 4
MAX_RISK_SCORE == 10

\* Variant: the utilization rule fires at its threshold.
UtilizationFires_AtThreshold(c) ==
    /\ c.creditLimit > 0
    /\ c.outstandingAmount * 10 >= UTILIZATION_LIMIT * c.creditLimit

\* Lines 239-243: outstanding / credit_limit > 0.8, for a positive limit.
UtilizationFires(c) ==
    /\ c.creditLimit > 0
    /\ c.outstandingAmount * 10 > UTILIZATION_LIMIT * c.creditLimit

\* Lines 252-255: late payments / payments > 0.2, for a non-empty history.
\* h: the number of payments returned by the query and how many are late.
LatePaymentsFire(h) ==
    /\ h.n > 0
    /\ h.late * 10 > LATE_RATIO_LIMIT * h.n

\* Variant: the outstanding amount adds nothing.
OutstandingFires_Never(c) == FALSE

\* Line 264: outstanding > credit_limit * 0.5.
OutstandingFires(c) ==
    c.outstandingAmount * 10 > c.creditLimit * OUTSTANDING_SHARE

NoRisk == [risk_score |-> 0, risk_level |-> "none", risk_factors |-> <<>>]

\* Lines 234-290: the score is accumulated rule by rule, the level is read
\* from the accumulated score, the returned score is min(score, 1.0).
score_customer(c, h) ==
    LET s1 == IF UtilizationFires(c) THEN UTILIZATION_WEIGHT ELSE 0
        f1 == IF UtilizationFires(c)
              THEN <<"High Credit Utilization">> ELSE <<>>
        s2 == IF LatePaymentsFire(h) THEN s1 + LATE_PAYMENT_WEIGHT ELSE s1
        f2 == IF LatePaymentsFire(h)
              THEN Append(f1, "Frequent Late Payments") ELSE f1
        s3 == IF OutstandingFires(c) THEN s2 + OUTSTANDING_WEIGHT ELSE s2
        f3 == IF OutstandingFires(c)
              THEN Append(f2, "High Outstanding Amount") ELSE f2
    IN  [risk_score |-> IF s3 < MAX_RISK_SCORE THEN s3 ELSE MAX_RISK_SCORE,
         risk_level |-> IF s3 >= HIGH_RISK_SCORE THEN "High"
                        ELSE IF s3 >= MEDIUM_RISK_SCORE THEN "Medium"
                        ELSE "Low",
         risk_factors |-> f3]

\* assess_customer_risk: c and h are what the customers and payments
\* collections hold for the id.
assess_customer_risk(customer_id, c, h) ==
    IF ~get_customer_data(customer_id).found
    THEN [ok |-> FALSE, error |-> "CustomerNotFound", risk |-> NoRisk]
    ELSE [ok |-> TRUE, error |-> "none", risk |-> score_customer(c, h)]

---------------------------------------------------------------------------
(* SpecSvc: requests on one PredictionService.                             *)

\* The credit fields of a customer record and a payment history.
NoCustomer == [creditLimit |-> 0, outstandingAmount |-> 0]
NoHistory == [n |-> 0, late |-> 0]

CustomerChoices ==
    [creditLimit : {0, 1000},
     outstandingAmount : {0, 500, 501, 800, 801, 900}]

HistoryChoices ==
    {[n |-> 0, late |-> 0], [n |-> 5, late |-> 0], [n |-> 5, late |-> 1],
     [n |-> 5, late |-> 2], [n |-> 10, late |-> 2], [n |-> 10, late |-> 3]}

\* The last request: what it was given, how it ended, the manager before
\* it, and the outcome of each single-customer call it made.
NoSvc ==
    [op |-> "none", ok |-> TRUE, error |-> "none", ran |-> FALSE,
     train_failed_at |-> "none", before |-> NewManager("payment_delay"),
     ids |-> <<>>, predictions |-> <<>>, summary |-> NoSummary,
     attempts |-> <<>>, customer |-> NoCustomer, history |-> NoHistory,
     risk |-> NoRisk]

\* The probabilities of delay an estimator gives: the breakpoints of the
\* tiers, their neighbours and the ends of the range.
ProbChoices == {0, 3999, 4000, 6999, 7000, 10000}
BulkProbChoices == {3999, 4000, 7000}

\* The lazy training of a request: train() with retrain = False.
AllSvcTrainInputs ==
    {inp \in RequestTrainInputs("payment_delay") : ~inp.retrain}

SvcTrainInputs(m) ==
    IF m.is_trained
    THEN {inp \in AllSvcTrainInputs : inp.fail = "none"}
    ELSE AllSvcTrainInputs

BulkRequests ==
    UNION {[1..n -> CustomerIds] : n \in 0..MaxBulk}

InitSvc == InitCommon /\ budget = MaxSvcOps /\ last = NoSvc

SvcPredictDelay(customer_id, p, inp) ==
    LET m == mgr["ps_delay"]
    IN  /\ budget > 0
        /\ inp \in SvcTrainInputs(m)
        /\ \E r \in {predict_payment_delay(m, files["payment_delay"],
                                           runs + 1, now, customer_id, p,
                                           inp)} :
              /\ mgr' = [mgr EXCEPT !["ps_delay"] = r.mgr]
              /\ files' = [files EXCEPT !["payment_delay"] = r.files]
              /\ runs' = IF r.ran THEN runs + 1 ELSE runs
              /\ last' = [op |-> "predict_payment_delay", ok |-> r.ok,
                          error |-> r.error, ran |-> r.ran,
                          train_failed_at |-> r.train_failed_at,
                          before |-> m, ids |-> <<customer_id>>,
                          predictions |->
                              IF r.ok THEN <<r.result>> ELSE <<>>,
                          summary |-> NoSummary,
                          attempts |-> <<[customer_id |-> customer_id,
                                          ok |-> r.ok, error |-> r.error]>>,
                          customer |-> NoCustomer, history |-> NoHistory,
                          risk |-> NoRisk]
        /\ budget' = budget - 1
        /\ UNCHANGED schedVars

SvcPredictBulk(customer_ids, probs, inp) ==
    LET m == mgr["ps_delay"]
    IN  /\ budget > 0
        /\ inp \in SvcTrainInputs(m)
        /\ \E r \in {predict_payment_delay_bulk(m, files["payment_delay"],
                                                runs, now, customer_ids,
                                                probs, inp)} :
              /\ mgr' = [mgr EXCEPT !["ps_delay"] = r.mgr]
              /\ files' = [files EXCEPT !["payment_delay"] = r.files]
              /\ runs' = r.run
              /\ last' = [op |-> "predict_payment_delay_bulk", ok |-> r.ok,
                          error |-> IF r.ok THEN "none" ELSE "Aborted",
                          ran |-> r.run > runs, train_failed_at |-> "none",
                          before |-> m, ids |-> customer_ids,
                          predictions |-> r.predictions,
                          summary |-> r.summary, attempts |-> r.attempts,
                          customer |-> NoCustomer, history |-> NoHistory,
                          risk |-> NoRisk]
        /\ budget' = budget - 1
        /\ UNCHANGED schedVars

SvcAssessRisk(customer_id, c, h) ==
    LET r == assess_customer_risk(customer_id, c, h)
    IN  /\ budget > 0
        /\ customer_id \notin DOMAIN CustomerCategory =>
               c = NoCustomer /\ h = NoHistory
        /\ last' = [NoSvc EXCEPT
                      !.op = "assess_customer_risk", !.ok = r.ok,
                      !.error = r.error, !.before = mgr["ps_delay"],
                      !.ids = <<customer_id>>, !.customer = c,
                      !.history = h, !.risk = r.risk]
        /\ budget' = budget - 1
        /\ UNCHANGED <<mgr, files, runs>>
        /\ UNCHANGED schedVars

NextSvc ==
    \/ \E customer_id \in CustomerIds : \E p \in ProbChoices :
       \E inp \in AllSvcTrainInputs :
           SvcPredictDelay(customer_id, p, inp)
    \/ \E customer_ids \in BulkRequests :
       \E probs \in [1..Len(customer_ids) -> BulkProbChoices] :
       \E inp \in AllSvcTrainInputs :
           SvcPredictBulk(customer_ids, probs, inp)
    \/ \E customer_id \in {"c1", "c0"} : \E c \in CustomerChoices :
       \E h \in HistoryChoices :
           SvcAssessRisk(customer_id, c, h)

SpecSvc == InitSvc /\ [][NextSvc]_vars

---------------------------------------------------------------------------
(* Claims on the PredictionService (SpecSvc).                              *)

Succeeded(attempt) == attempt.ok

BulkCall == last.op = "predict_payment_delay_bulk"

Tiered(level) ==
    Cardinality({i \in DOMAIN last.predictions :
                    last.predictions[i].risk_level = level})

\* C21: predict_payment_delay_bulk never aborts: it calls the single-customer
\* path once per id, returns the predictions of exactly the ids whose call
\* succeeded, in input order, and a summary with total_customers = number
\* of ids, successful_predictions = number of predictions and tier counts
\* that add up to successful_predictions.
C21_BulkSkipsFailures ==
    BulkCall =>
        LET served == SelectSeq(last.attempts, Succeeded)
        IN  /\ last.ok
            /\ Len(last.attempts) = Len(last.ids)
            /\ \A i \in DOMAIN last.ids :
                   last.attempts[i].customer_id = last.ids[i]
            /\ Len(last.predictions) = Len(served)
            /\ \A i \in DOMAIN served :
                   last.predictions[i].customer_id = served[i].customer_id
            /\ last.summary.total_customers = Len(last.ids)
            /\ last.summary.successful_predictions = Len(last.predictions)
            /\ last.summary.high_risk_customers = Tiered("High")
            /\ last.summary.medium_risk_customers = Tiered("Medium")
            /\ last.summary.low_risk_customers = Tiered("Low")
            /\ last.summary.high_risk_customers
                   + last.summary.medium_risk_customers
                   + last.summary.low_risk_customers
                   = last.summary.successful_predictions

C21_Witness ==
    /\ BulkCall
    /\ last.ids = <<"c1", "c0">>
    /\ Len(last.predictions) = 1
    /\ last.predictions[1].customer_id = "c1"
    /\ last.summary.total_customers = 2
    /\ last.summary.successful_predictions = 1

\* C22: a probability below 0.4 is Low, from 0.4 up to but not including
\* 0.7 Medium, from 0.7 on High; every returned prediction carries exactly
\* that tier.
C22_RiskTierBreakpoints ==
    \A i \in DOMAIN last.predictions :
        LET p == last.predictions[i].delay_probability
            tier == last.predictions[i].risk_level
        IN  /\ p < 4000 => tier = "Low"
            /\ (4000 <= p /\ p < 7000) => tier = "Medium"
            /\ p >= 7000 => tier = "High"
            /\ tier \in {"Low", "Medium", "High"}

C22_Witness ==
    /\ last.op = "predict_payment_delay"
    /\ last.ok
    /\ last.predictions[1].delay_probability = 4000
    /\ last.predictions[1].risk_level = "Medium"

RiskCall == last.op = "assess_customer_risk"

\* The customer of the worked example: limit 1000, outstanding 900, no
\* late payment in the history.
ExampleCustomer ==
    /\ RiskCall
    /\ last.ok
    /\ last.customer = [creditLimit |-> 1000, outstandingAmount |-> 900]
    /\ last.history.late = 0

\* C23: for credit_limit 1000, outstanding 900 and no late payments
\* assess_customer_risk returns risk_score 0.3 and risk_level Low.
C23_ExampleScoresLow ==
    ExampleCustomer =>
        last.risk.risk_score = 3 /\ last.risk.risk_level = "Low"

\* C23, as the code has it: the utilization rule (0.9 > 0.8) and the
\* outstanding rule (900 > 500) both fire: risk_score 0.5, risk_level Medium.
C23_ExampleScoresMedium ==
    ExampleCustomer =>
        /\ last.risk.risk_score = 5
        /\ last.risk.risk_level = "Medium"
        /\ last.risk.risk_factors =
               <<"High Credit Utilization", "High Outstanding Amount">>

C23_Witness ==
    /\ ExampleCustomer
    /\ last.history.n = 5
    /\ last.risk.risk_score = 5

\* C24: risk_score is the sum of the weights of the rules that fire
\* (utilization above 0.8: 0.3; late-payment ratio above 0.2: 0.4;
\* outstanding above half the limit: 0.2), within [0, 1]; risk_level is High
\* from 0.7, Medium from 0.4, Low below; a rule at its threshold does not
\* fire.
C24_ScoreIsSumOfFiredRules ==
    (RiskCall /\ last.ok) =>
        LET cl == last.customer.creditLimit
            out == last.customer.outstandingAmount
            n == last.history.n
            late == last.history.late
            total ==
                (IF cl > 0 /\ 10 * out > 8 * cl THEN 3 ELSE 0)
                + (IF n > 0 /\ 10 * late > 2 * n THEN 4 ELSE 0)
                + (IF 2 * out > cl THEN 2 ELSE 0)
        IN  /\ last.risk.risk_score = total
            /\ last.risk.risk_score \in 0..10
            /\ last.risk.risk_level =
                   IF total >= 7 THEN "High"
                   ELSE IF total >= 4 THEN "Medium" ELSE "Low"

C24_Witness ==
    /\ RiskCall
    /\ last.ok
    /\ last.customer = [creditLimit |-> 1000, outstandingAmount |-> 800]
    /\ last.history = [n |-> 10, late |-> 2]
    /\ last.risk.risk_score = 2
    /\ last.risk.risk_level = "Low"

\* A request for a customer id that has no record.
UnknownCustomer ==
    /\ last.op \in {"predict_payment_delay", "assess_customer_risk"}
    /\ last.ids[1] \notin DOMAIN CustomerCategory

\* In a bulk request every id without a record is skipped: its call fails
\* and no prediction carries the id.
UnknownSkipped ==
    BulkCall =>
        \A i \in DOMAIN last.ids :
            last.ids[i] \notin DOMAIN CustomerCategory =>
                /\ ~last.attempts[i].ok
                /\ \A j \in DOMAIN last.predictions :
                       last.predictions[j].customer_id # last.ids[i]
                /\ last.summary.total_customers = Len(last.ids)
                /\ last.summary.successful_predictions < Len(last.ids)

\* C27: predict_payment_delay and assess_customer_risk for an id without a
\* record fail with CustomerNotFound and return nothing; the bulk request
\* skips the id and counts it in total_customers only.
C27_UnknownCustomerFails ==
    /\ UnknownCustomer =>
           /\ ~last.ok
           /\ last.error = "CustomerNotFound"
           /\ last.predictions = <<>>
           /\ last.risk = NoRisk
    /\ UnknownSkipped

\* C27, as the code has it: predict_payment_delay first makes sure the
\* model is trained, so for an untrained manager whose training run raises
\* the request fails with that run's error; in every other case the error
\* is CustomerNotFound. assess_customer_risk always fails with
\* CustomerNotFound.
C27_UnknownCustomerAfterTraining ==
    /\ UnknownCustomer =>
           /\ ~last.ok
           /\ last.predictions = <<>>
           /\ last.risk = NoRisk
           /\ last.error =
                  IF last.op = "predict_payment_delay"
                     /\ last.ran /\ last.train_failed_at # "none"
                  THEN "TrainingFailed" ELSE "CustomerNotFound"
    /\ UnknownSkipped

C27_Witness ==
    /\ last.op = "predict_payment_delay"
    /\ last.ids = <<"c0">>
    /\ last.ran
    /\ last.error = "CustomerNotFound"
    /\ mgr["ps_delay"].is_trained

---------------------------------------------------------------------------
(* forecast_inventory_demand. Seasonal factors are in tenths; a day is its *)
(* number in a year of 365 days.                                           *)

DEFAULT_DAILY_DEMAND == 1

\* _get_seasonal_factor: the month's factor.
SeasonalFactors == <<8, 9, 11, 10, 10, 10, 12, 11, 10, 11, 13, 14>>
get_seasonal_factor(month) == SeasonalFactors[month]

\* forecast_date.month
LastDayOfMonth == <<31, 59, 90, 120, 151, 181, 212, 243, 273, 304, 334, 365>>
MonthOf(day) ==
    CHOOSE month \in 1..12 :
        /\ day <= LastDayOfMonth[month]
        /\ month > 1 => day > LastDayOfMonth[month - 1]

\* _get_item_data returned None.
NoItem == [found |-> FALSE, stockLevel |-> 0,
           sales |-> [n |-> 0, quantity |-> 0, days |-> 0]]

\* _calculate_average_daily_demand, as a fraction. sales: the number of
\* sale records, their total quantity and the number of distinct dates.
calculate_average_daily_demand(sales) ==
    IF sales.n = 0
    THEN [num |-> DEFAULT_DAILY_DEMAND, den |-> 1]
    ELSE [num |-> sales.quantity,
          den |-> IF sales.days > 1 THEN sales.days ELSE 1]

\* Lines 184-191: max(0, int(base_demand)) for one day.
predicted_demand(avg, month, include_seasonality) ==
    LET base_demand ==
            IF include_seasonality
            THEN (avg.num * get_seasonal_factor(month)) \div (avg.den * 10)
            ELSE avg.num \div avg.den
    IN  IF base_demand > 0 THEN base_demand ELSE 0

\* Lines 179-193: one entry per day of range(1, days_ahead + 1).
forecast_data(avg, today, days_ahead, include_seasonality) ==
    [day \in 1..days_ahead |->
        predicted_demand(avg, MonthOf(((today + day - 1) % 365) + 1),
                         include_seasonality)]

RECURSIVE SumSeq(_)
SumSeq(q) == IF q = <<>> THEN 0 ELSE Head(q) + SumSeq(Tail(q))

\* Variant: no floor at zero.
reorder_point_NoFloor(total_predicted_demand, current_stock) ==
    total_predicted_demand - current_stock

\* Line 197
reorder_point(total_predicted_demand, current_stock) ==
    IF total_predicted_demand - current_stock > 0
    THEN total_predicted_demand - current_stock ELSE 0

\* Lines 171-211: the entry of one found item.
forecast_item(pos, item, days_ahead, include_seasonality, today) ==
    CHOOSE entry \in
        {[pos |-> pos, current_stock |-> item.stockLevel,
          predicted_demand |-> daily,
          should_reorder |->
              reorder_point(SumSeq(daily), item.stockLevel) > 0,
          recommended_quantity |->
              reorder_point(SumSeq(daily), item.stockLevel)] :
            daily \in {forecast_data(
                           calculate_average_daily_demand(item.sales),
                           today, days_ahead, include_seasonality)}} : TRUE

\* Lines 167-169: an item that is not found is logged and skipped.
item_not_found(results) == results

\* forecast_inventory_demand: items[i] is what _get_item_data returns for
\* the i-th id. Nothing in the loop raises.
RECURSIVE forecast_loop(_, _, _, _, _, _)
forecast_loop(results, pos, items, days_ahead, include_seasonality, today) ==
    IF pos > Len(items) THEN results
    ELSE CHOOSE out \in
             {forecast_loop(results1, pos + 1, items, days_ahead,
                            include_seasonality, today) :
                 results1 \in
                     {IF ~items[pos].found THEN item_not_found(results)
                      ELSE Append(results,
                                  forecast_item(pos, items[pos], days_ahead,
                                                include_seasonality,
                                                today))}} : TRUE

forecast_inventory_demand(items, days_ahead, include_seasonality, today) ==
    [ok |-> TRUE, error |-> "none",
     results |-> forecast_loop(<<>>, 1, items, days_ahead,
                               include_seasonality, today)]

---------------------------------------------------------------------------
(* SpecForecast: forecast requests.                                        *)

SalesChoices ==
    {[n |-> 0, quantity |-> 0, days |-> 0],
     [n |-> 30, quantity |-> 60, days |-> 30],
     [n |-> 3, quantity |-> 7, days |-> 3]}

ItemChoices ==
    {NoItem} \cup [found : {TRUE}, stockLevel : {50, 100},
                   sales : SalesChoices]

ForecastRequests == UNION {[1..n -> ItemChoices] : n \in 0..MaxItems}

DaysAheadChoices == {0, 1, 30}
TodayChoices == {15, 350}

NoForecast ==
    [op |-> "none", ok |-> TRUE, error |-> "none", items |-> <<>>,
     days_ahead |-> 0, include_seasonality |-> FALSE, today |-> 15,
     results |-> <<>>]

InitForecast == InitCommon /\ budget = MaxForecastOps /\ last = NoForecast

SvcForecast(items, days_ahead, include_seasonality, today) ==
    /\ budget > 0
    /\ \E r \in {forecast_inventory_demand(items, days_ahead,
                                           include_seasonality, today)} :
          last' = [op |-> "forecast_inventory_demand", ok |-> r.ok,
                   error |-> r.error, items |-> items,
                   days_ahead |-> days_ahead,
                   include_seasonality |-> include_seasonality,
                   today |-> today, results |-> r.results]
    /\ budget' = budget - 1
    /\ UNCHANGED <<mgr, files, runs>>
    /\ UNCHANGED schedVars

NextForecast ==
    \E items \in ForecastRequests : \E days_ahead \in DaysAheadChoices :
    \E include_seasonality \in BOOLEAN : \E today \in TodayChoices :
        SvcForecast(items, days_ahead, include_seasonality, today)

SpecForecast == InitForecast /\ [][NextForecast]_vars

ForecastCall == last.op = "forecast_inventory_demand"

\* C25: every found item gets days_ahead daily entries, recommended_quantity
\* = max(0, sum of the daily demands - current_stock) and should_reorder =
\* (recommended_quantity > 0); stock 50, average 2 a day, 30 days and no
\* seasonality give total 60, should_reorder and quantity 10; with no sales
\* history the daily demand is 1.
C25_ReorderFromForecast ==
    ForecastCall =>
        \A i \in DOMAIN last.results :
            LET entry == last.results[i]
                item == last.items[entry.pos]
                total == SumSeq(entry.predicted_demand)
                plain == ~last.include_seasonality
            IN  /\ item.found
                /\ Len(entry.predicted_demand) = last.days_ahead
                /\ entry.recommended_quantity =
                       IF total > item.stockLevel
                       THEN total - item.stockLevel ELSE 0
                /\ entry.recommended_quantity >= 0
                /\ entry.should_reorder = (entry.recommended_quantity > 0)
                /\ (plain /\ item.stockLevel = 50 /\ last.days_ahead = 30
                       /\ item.sales = [n |-> 30, quantity |-> 60,
                                        days |-> 30]) =>
                       /\ total = 60
                       /\ entry.should_reorder
                       /\ entry.recommended_quantity = 10
                /\ (plain /\ item.sales.n = 0) =>
                       \A d \in DOMAIN entry.predicted_demand :
                           entry.predicted_demand[d] = 1

C25_Witness ==
    /\ ForecastCall
    /\ ~last.include_seasonality
    /\ last.days_ahead = 30
    /\ Len(last.results) = 2
    /\ last.results[1].current_stock = 50
    /\ last.results[1].recommended_quantity = 10
    /\ last.results[1].should_reorder
    /\ last.results[2].current_stock = 100
    /\ last.results[2].recommended_quantity = 0
    /\ last.items[2].sales.n = 0

\* C26: forecast_inventory_demand called with an item id that does not
\* exist fails with EntityNotFound.
C26_UnknownItemPropagates ==
    (ForecastCall /\ \E i \in DOMAIN last.items : ~last.items[i].found) =>
        ~last.ok /\ last.error = "EntityNotFound"

====
